---- MODULE Spec2Model ----
(***************************************************************************)
(* Model of the MCP/Bedrock mediation layer of auricp/MCP-Endpoint.        *)
(*                                                                         *)
(* Two builds of the client live in the repository:                        *)
(*   - the TypeScript source, src/unnamed/part_000 (EnhancedMCPClient with *)
(*     processQuery(query, stateless)), modelled by Spec;                  *)
(*   - the compiled build, src/unnamed/part_001 lines 1-401                *)
(*     (processQuery(query), always stateful), modelled by SpecBuild.      *)
(* The standalone server src/endpoint.js, which gates POST /query on its    *)
(* mcpReady flag, is modelled by SpecEndpoint.  The pure functions have a   *)
(* specification each: optimizeQuery (SpecOptimize), sanitizeToolName       *)
(* (SpecSanitize), the decoder of tool results (SpecDecode); the tool       *)
(* registry filled by connectToServer is modelled by SpecRegistry.          *)
(* SpecLive is Spec's turn under weak fairness of its steps.  The          *)
(* mcp-dynamo server's queryTable and its scan fallback (part_001 from line *)
(* 490) are modelled by SpecQuery, the client module's singleton            *)
(* (initMCPClient / mcpProcessQuery) by SpecSingleton, and the              *)
(* POST /query-debug handler of src/endpoint.js by SpecDebug.               *)
(* All share the state variables and the pure helpers below.                *)
(*                                                                         *)
(* Strings that the code inspects character by character (tool names, key  *)
(* condition expressions) are sequences of one-character strings; strings  *)
(* the code only copies (query text, model text, error reasons, tool       *)
(* output) are atomic.                                                     *)
(***************************************************************************)
EXTENDS Integers, Sequences, FiniteSets, TLC

VARIABLES
  conversationHistory, \* EnhancedMCPClient.conversationHistory
  pc,                  \* position of the running processQuery call
  stateless,           \* the call's stateless argument
  userMessage,         \* the call's userMessage constant
  messages,            \* message list of the last model invocation issued
  responseBody,        \* content blocks of the first model response
  idx,                 \* index of the block the for-loop is at
  finalText,           \* the output accumulator
  assistantContent,    \* the assistantContent array of the call
  pending,             \* the backend tool call in flight, if any
  result,              \* what processQuery completed with
  httpStatus,          \* status answered to the current /query request: 0 if
                       \* the call is not from the HTTP handler, -1 while the
                       \* handler awaits processQuery
  log,                 \* network calls of the current turn, in order
  histAtStart,         \* conversationHistory when the current turn began
  aliased,             \* indices of conversationHistory whose content is
                       \* the call's live assistantContent array
  turns,               \* number of turns started so far
  startup,             \* endpoint.js: state of the startup initialization
  mcpReady,            \* endpoint.js: the mcpReady flag
  fnIn,                \* a call of a pure function under test, if any
  fnOut,               \* what that call returned, if it has
  clientTools,         \* this.tools: names of the catalog last fetched
  nameMapping,         \* this.sanitizedToOriginalToolName
  connecting,          \* connectToServer is awaiting connect or listTools
  srvPc,               \* mcp-dynamo server: position of the queryTable call
  dbCalls,             \* mcp-dynamo server: what queryTable did, in order
  mcpClientInstance,   \* client module: the singleton, "null" until created
  instanceConnected,   \* client module: the singleton's connectToServer completed
  initCalls,           \* client module: the initMCPClient calls and their outcome
  console,             \* endpoint.js: the functions console.log/error hold
  dbg                  \* endpoint.js: the /query-debug requests

\* state of endpoint.js outside the client
endpointVars == <<startup, mcpReady>>

\* state of the pure-function calls
fnVars == <<fnIn, fnOut>>

\* the tool registry of the client
registryVars == <<clientTools, nameMapping, connecting>>

\* state of the mcp-dynamo server's queryTable
serverVars == <<srvPc, dbCalls>>

\* state of the client module's singleton
singletonVars == <<mcpClientInstance, instanceConnected, initCalls>>

\* state of the /query-debug handler
debugVars == <<console, dbg>>

auxVars == <<serverVars, singletonVars, debugVars>>

vars == <<conversationHistory, pc, stateless, userMessage, messages,
          responseBody, idx, finalText, assistantContent, pending, result,
          httpStatus, log, histAtStart, aliased, turns, endpointVars, fnVars, registryVars, auxVars>>

----------------------------------------------------------------------------
(* Bounds of the model *)

MaxTurns == 2
MaxBuildTurns == 2
MaxBuildHistory == 2
MaxBlocks == 2
MaxNameLen == 3
MaxCatalog == 2
MaxDebugRequests == 2
MaxInitCalls == 2
MaxSingletonTurns == 1

----------------------------------------------------------------------------
(* Character strings *)

Letters ==
  {"a","b","c","d","e","f","g","h","i","j","k","l","m","n","o","p","q","r",
   "s","t","u","v","w","x","y","z","A","B","C","D","E","F","G","H","I","J",
   "K","L","M","N","O","P","Q","R","S","T","U","V","W","X","Y","Z"}
Digits == {"0","1","2","3","4","5","6","7","8","9"}

\* the character class [a-zA-Z0-9_-] of sanitizeToolName
SafeChars == Letters \cup Digits \cup {"_", "-"}

\* String.prototype.includes on character sequences
Includes(hay, needle) ==
  \E i \in 0..(Len(hay) - Len(needle)) :
     SubSeq(hay, i + 1, i + Len(needle)) = needle

\* a replace without the g flag: only the first match is replaced
sanitizeToolName_firstOnly(name) ==
  LET unsafe == {i \in DOMAIN name : name[i] \notin SafeChars}
  IN [i \in DOMAIN name |->
        IF i \in unsafe /\ \A j \in unsafe : i <= j THEN "_" ELSE name[i]]

\* a character class that leaves the hyphen out
sanitizeToolName_noHyphen(name) ==
  [i \in DOMAIN name |->
     IF name[i] \in SafeChars \ {"-"} THEN name[i] ELSE "_"]

\* name.replace(/[^a-zA-Z0-9_-]/g, '_')
sanitizeToolName(name) ==
  [i \in DOMAIN name |-> IF name[i] \in SafeChars THEN name[i] ELSE "_"]

QUERY_TABLE ==
  <<"d","y","n","a","m","o","d","b",":","q","u","e","r","y","_","t","a","b","l","e">>
SCAN_TABLE ==
  <<"d","y","n","a","m","o","d","b",":","s","c","a","n","_","t","a","b","l","e">>
LIST_TABLES ==
  <<"d","y","n","a","m","o","d","b",":","l","i","s","t","_","t","a","b","l","e","s">>

\* this.tools after connectToServer: names of the catalog the server lists
tools == <<LIST_TABLES, QUERY_TABLE, SCAN_TABLE>>

RECURSIVE BuildMapping(_, _)
\* a loop that keeps the entry a safe name already has
BuildMapping_firstWins(ts, m) ==
  LET keys == {sanitizeToolName(ts[i]) : i \in DOMAIN ts}
      first(k) == CHOOSE i \in DOMAIN ts :
                    /\ sanitizeToolName(ts[i]) = k
                    /\ \A j \in DOMAIN ts : sanitizeToolName(ts[j]) = k => i <= j
  IN [k \in (DOMAIN m) \cup keys |-> IF k \in DOMAIN m THEN m[k] ELSE ts[first(k)]]

\* lines 97-101: the loop filling the mapping m from the catalog ts
BuildMapping(ts, m) ==
  IF ts = <<>> THEN m
  ELSE LET k == sanitizeToolName(Head(ts))
       IN BuildMapping(Tail(ts),
            [x \in (DOMAIN m) \cup {k} |-> IF x = k THEN Head(ts) ELSE m[x]])

\* this.sanitizedToOriginalToolName after connectToServer
sanitizedToOriginalToolName == BuildMapping(tools, << >>)

\* a lookup without the fallback: an absent name resolves to nothing
mcpToolNameIn_noFallback(mapping, sanitizedName, optimizedName) ==
  IF sanitizedName \in DOMAIN mapping THEN mapping[sanitizedName] ELSE << >>

\* mapping[sanitizedToolName] || optimized.name, for any mapping; an entry
\* holding the empty name is falsy
mcpToolNameIn(mapping, sanitizedName, optimizedName) ==
  IF sanitizedName \in DOMAIN mapping /\ mapping[sanitizedName] # << >>
  THEN mapping[sanitizedName]
  ELSE optimizedName

\* this.sanitizedToOriginalToolName[sanitizedToolName] || optimized.name
mcpToolName(sanitizedName, optimizedName) ==
  IF sanitizedName \in DOMAIN sanitizedToOriginalToolName
  THEN sanitizedToOriginalToolName[sanitizedName]
  ELSE optimizedName

----------------------------------------------------------------------------
(* Tool calls: arguments, the optimizer, the result decoder *)

Str_Age   == <<"A","g","e">>
Str_Name  == <<"N","a","m","e">>
Str_hname == <<"#","n","a","m","e">>
Str_AgeGt == <<"A","g","e"," ",">"," ",":","a">>

\* tool_use inputs the model may send; an absent field is an undefined one
ArgsPlain == [tableName |-> "Users"]
ArgsAge   == [tableName |-> "Users", keyConditionExpression |-> Str_AgeGt,
              limit |-> 10]

\* a rewrite that spreads the original arguments into the scan call
ScanArgs_spread(toolArgs) ==
  [f \in (DOMAIN toolArgs) \cup {"filterExpression"} |->
     IF f = "filterExpression" THEN toolArgs["keyConditionExpression"]
     ELSE toolArgs[f]]

\* a rewrite that forgets to carry the limit over
ScanArgs_dropLimit(toolArgs) ==
  LET src(f) == IF f = "filterExpression" THEN "keyConditionExpression" ELSE f
      fields == {f \in {"tableName", "filterExpression",
                        "expressionAttributeNames",
                        "expressionAttributeValues"} :
                   src(f) \in DOMAIN toolArgs}
  IN [f \in fields |-> toolArgs[src(f)]]

\* the args object built by optimizeQuery's rewrite; JSON drops the fields
\* whose value is undefined
ScanArgs(toolArgs) ==
  LET src(f) == IF f = "filterExpression" THEN "keyConditionExpression" ELSE f
      fields == {f \in {"tableName", "filterExpression",
                        "expressionAttributeNames",
                        "expressionAttributeValues", "limit"} :
                   src(f) \in DOMAIN toolArgs}
  IN [f \in fields |-> toolArgs[src(f)]]

\* an optimizer that rewrites every point query mentioning Age, whether or
\* not it also names the partition key
optimizeQuery_ignoreName(toolName, toolArgs) ==
  LET keyCondition == IF "keyConditionExpression" \in DOMAIN toolArgs
                      THEN toolArgs["keyConditionExpression"] ELSE << >>
  IN IF toolName = QUERY_TABLE /\ Includes(keyCondition, Str_Age)
     THEN [name |-> SCAN_TABLE, args |-> ScanArgs(toolArgs)]
     ELSE [name |-> toolName, args |-> toolArgs]

optimizeQuery(toolName, toolArgs) ==
  LET keyCondition == IF "keyConditionExpression" \in DOMAIN toolArgs
                      THEN toolArgs["keyConditionExpression"] ELSE << >>
  IN IF /\ toolName = QUERY_TABLE
        /\ Includes(keyCondition, Str_Age)
        /\ ~Includes(keyCondition, Str_Name)
        /\ ~Includes(keyCondition, Str_hname)
     THEN [name |-> SCAN_TABLE, args |-> ScanArgs(toolArgs)]
     ELSE [name |-> toolName, args |-> toolArgs]

\* texts a tool result may carry: JSON texts of every kind of value, and
\* texts that are no JSON
RAW_OBJECT    == "{\"success\":true}"
RAW_EMPTYOBJ  == "{}"
RAW_ARRAY     == "[1,2]"
RAW_STRING    == "\"hi\""
RAW_EMPTYSTR  == "\"\""
RAW_NUMBER    == "4.0"
RAW_ZERO      == "0"
RAW_TRUE      == "true"
RAW_FALSE     == "false"
RAW_NULL      == "null"
RAW_NOTJSON   == "not json"
RAW_EMPTY     == ""
RAW_TRUNCATED == "{\"success\":"
RAW_UNDEFINED == "undefined"

RawTexts ==
  {RAW_OBJECT, RAW_EMPTYOBJ, RAW_ARRAY, RAW_STRING, RAW_EMPTYSTR, RAW_NUMBER,
   RAW_ZERO, RAW_TRUE, RAW_FALSE, RAW_NULL, RAW_NOTJSON, RAW_EMPTY,
   RAW_TRUNCATED, RAW_UNDEFINED}

\* JSON.parse: ok is FALSE when it throws
JSON_parse(raw) ==
  CASE raw = RAW_OBJECT   -> [ok |-> TRUE, value |-> "object{success:true}"]
    [] raw = RAW_EMPTYOBJ -> [ok |-> TRUE, value |-> "object{}"]
    [] raw = RAW_ARRAY    -> [ok |-> TRUE, value |-> "array[1,2]"]
    [] raw = RAW_STRING   -> [ok |-> TRUE, value |-> "string:hi"]
    [] raw = RAW_EMPTYSTR -> [ok |-> TRUE, value |-> "emptyString"]
    [] raw = RAW_NUMBER   -> [ok |-> TRUE, value |-> "4"]
    [] raw = RAW_ZERO     -> [ok |-> TRUE, value |-> "0"]
    [] raw = RAW_TRUE     -> [ok |-> TRUE, value |-> "true"]
    [] raw = RAW_FALSE    -> [ok |-> TRUE, value |-> "false"]
    [] raw = RAW_NULL     -> [ok |-> TRUE, value |-> "null"]
    [] OTHER              -> [ok |-> FALSE, value |-> "null"]

\* JavaScript truthiness of a parsed value
Truthy(value) == value \notin {"null", "false", "0", "emptyString"}

\* JSON.stringify(value, null, 2)
JSON_stringify(value) ==
  CASE value = "object{success:true}" -> "{\n  \"success\": true\n}"
    [] value = "object{}"    -> "{}"
    [] value = "array[1,2]"  -> "[\n  1,\n  2\n]"
    [] value = "string:hi"   -> "\"hi\""
    [] value = "emptyString" -> "\"\""
    [] OTHER -> value

\* results mcp.callTool may resolve with: content is a string, an array whose
\* first block has a string text, an array whose first block has none, an
\* empty array, or is missing
ToolResults ==
  {[content |-> "string", text |-> r] : r \in RawTexts}
  \cup {[content |-> "blocks", text |-> r] : r \in RawTexts}
  \cup {[content |-> "blocksNoText"], [content |-> "emptyArray"],
        [content |-> "missing"]}

\* parsedResult after the try/catch around JSON.parse; null when nothing was
\* parsed or the parse threw
parsedResult(res) ==
  IF res.content \in {"string", "blocks"} /\ JSON_parse(res.text).ok
  THEN JSON_parse(res.text).value
  ELSE "null"

\* the results the turn model draws from: decodable JSON in a block (what the
\* repository's server sends), a string that is no JSON, an empty array
TurnToolResults ==
  {[content |-> "blocks", text |-> RAW_OBJECT],
   [content |-> "string", text |-> RAW_NOTJSON],
   [content |-> "emptyArray"]}

\* resultText: "" unless parsedResult is truthy
resultText(res) ==
  IF Truthy(parsedResult(res)) THEN JSON_stringify(parsedResult(res)) ELSE ""

\* JSON.parse is reached and throws
ParseThrows(res) ==
  res.content \in {"string", "blocks"} /\ ~JSON_parse(res.text).ok

\* a decode without the try/catch: the parse error escapes
CatchParseError_rethrow(threw) == threw

\* catch (parseError) {}: whether an error leaves the try block
CatchParseError(threw) == FALSE

\* the decode of a tool result: parsedResult, resultText, and whether it raised
DecodeToolResult(res) ==
  [raised |-> CatchParseError(ParseThrows(res)),
   parsedResult |-> parsedResult(res),
   resultText |-> resultText(res)]

----------------------------------------------------------------------------
(* Messages, content blocks and model responses *)

Text(t) == [type |-> "text", text |-> t]
ToolUse(i, n, a) == [type |-> "tool_use", id |-> i, name |-> n, input |-> a]
ToolResult(i, c) == [type |-> "tool_result", tool_use_id |-> i, content |-> c]
Message(r, c) == [role |-> r, content |-> c]

\* the text the user sends in the n-th turn
Queries == <<"q1", "q2", "q3", "q4">>
Query(n) == Queries[n]
Reasons == {"e1"}

\* the kinds of block a first model response is drawn from: a text block, or
\* a tool_use block naming a catalog tool as advertised (sanitized), or
\* naming the point-query tool by its unsanitized name
BlockKinds == {"text", "list_tables", "query_table", "raw_query_table"}

RECURSIVE SeqsUpTo(_, _)
SeqsUpTo(S, n) ==
  IF n = 0 THEN {<< >>}
  ELSE LET shorter == SeqsUpTo(S, n - 1)
       IN shorter \cup {Append(s, x) : s \in {t \in shorter : Len(t) = n - 1},
                                       x \in S}

ResponseShapes == SeqsUpTo(BlockKinds, MaxBlocks)

ModelTexts == <<"t1", "t2", "t3", "t4">>

\* the block of kind k at position i of the first response of turn t; the
\* model API gives every tool_use block an id of its own
BlockAt(k, t, i) ==
  CASE k = "text" -> Text(ModelTexts[i])
    [] k = "list_tables" ->
         ToolUse(<<t, i>>, sanitizeToolName(LIST_TABLES), ArgsPlain)
    [] k = "query_table" ->
         ToolUse(<<t, i>>, sanitizeToolName(QUERY_TABLE), ArgsAge)
    [] k = "raw_query_table" -> ToolUse(<<t, i>>, QUERY_TABLE, ArgsAge)

\* responseBody.content of the first invocation of turn t
ResponseContent(shape, t) == [i \in DOMAIN shape |-> BlockAt(shape[i], t, i)]

\* followUpBody.content of a follow-up invocation
FollowUpResponses ==
  {<< >>, <<Text("f1")>>,
   <<ToolUse(<<0, 1>>, sanitizeToolName(LIST_TABLES), ArgsPlain), Text("f2")>>}

Roles(ms) == [i \in DOMAIN ms |-> ms[i].role]

\* pieces of the text processQuery returns
ErrorPiece(reason) == [type |-> "error", msg |-> reason]
ToolFailedPiece(name, reason) ==
  [type |-> "toolFailed", name |-> name, err |-> reason]

----------------------------------------------------------------------------
(* The TypeScript source: EnhancedMCPClient.processQuery(query, stateless) *)

NoPending == [active |-> FALSE]
NoResult == [kind |-> "none"]
Returned(pieces) == [kind |-> "return", text |-> pieces]
Thrown(reason) == [kind |-> "throw", reason |-> reason]

\* the /query-debug requests the server may receive
Requests == 1..MaxDebugRequests

\* nothing has run yet on the server, in the client module or in the
\* /query-debug handler
ServerIdle ==
  /\ srvPc = "idle"
  /\ dbCalls = << >>

SingletonIdle ==
  /\ mcpClientInstance = "null"
  /\ instanceConnected = FALSE
  /\ initCalls = << >>

\* console.log and console.error as the process starts with them; a
\* request's number stands for the pair of wrappers it installed
NATIVE == 0

DebugIdle ==
  /\ console = NATIVE
  /\ dbg = [r \in Requests |->
              [pc |-> "idle", original |-> NATIVE, emitted |-> 0,
               logs |-> {}, status |-> 0]]

AuxIdle == ServerIdle /\ SingletonIdle /\ DebugIdle

Init ==
  /\ conversationHistory = << >>
  /\ pc = "Idle"
  /\ stateless = FALSE
  /\ userMessage = Message("user", << >>)
  /\ messages = << >>
  /\ responseBody = << >>
  /\ idx = 0
  /\ finalText = << >>
  /\ assistantContent = << >>
  /\ pending = NoPending
  /\ result = NoResult
  /\ httpStatus = 0
  /\ log = << >>
  /\ histAtStart = << >>
  /\ aliased = {}
  /\ turns = 0
  /\ startup = "connecting"
  /\ mcpReady = FALSE
  /\ fnIn = [fn |-> "none"]
  /\ fnOut = [fn |-> "none"]
  /\ clientTools = tools
  /\ nameMapping = sanitizedToOriginalToolName
  /\ connecting = FALSE
  /\ AuxIdle

\* a processQuery that pushes the user message in stateless mode too
HistoryOnEntry_alwaysPush(s, hist, um) == Append(hist, um)

\* an entry that keeps only the new user message of a stateful call
HistoryOnEntry_pruned(s, hist, um) == IF s THEN hist ELSE <<um>>

\* lines 151-155: the persistent history after the entry of processQuery
HistoryOnEntry(s, hist, um) == IF s THEN hist ELSE Append(hist, um)

\* a first invocation that submits the user message alone in either mode
MessagesOnEntry_onlyUser(s, hist, um) == <<um>>

\* lines 151-155: the message list of the first invocation
MessagesOnEntry(s, hist, um) == IF s THEN <<um>> ELSE Append(hist, um)

\* a catch that rethrows instead of returning the error string
CatchError_rethrow(reason) == Thrown(reason)

\* the catch of processQuery: return `Error: ${error.message || error}`
CatchError(reason) == Returned(<<ErrorPiece(reason)>>)

\* processQuery completes; the /query handler answers 200, or 500 if it threw
Finish(res) ==
  /\ pc' = "Done"
  /\ result' = res
  /\ httpStatus' = IF httpStatus = -1
                   THEN (IF res.kind = "return" THEN 200 ELSE 500)
                   ELSE httpStatus

\* processQuery from its entry to the await of the first model invocation;
\* hist is the history the call finds
processQuery(q, s, c, hist) ==
  LET um == Message("user", <<Text(q)>>)
  IN /\ pc \in {"Idle", "Done"}
     /\ turns < MaxTurns
     /\ turns' = turns + 1
     /\ stateless' = s
     /\ userMessage' = um
     /\ histAtStart' = hist
     /\ conversationHistory' = HistoryOnEntry(s, hist, um)
     /\ messages' = MessagesOnEntry(s, hist, um)
     /\ log' = <<[ev |-> "invoke", messages |-> MessagesOnEntry(s, hist, um)]>>
     /\ pc' = "InvokingModel"
     /\ responseBody' = << >>
     /\ idx' = 0
     /\ finalText' = << >>
     /\ assistantContent' = << >>
     /\ pending' = NoPending
     /\ result' = NoResult
     /\ aliased' = {}
     /\ httpStatus' = IF c = "http" THEN -1 ELSE 0
     /\ UNCHANGED <<endpointVars, fnVars, registryVars, auxVars>>

\* chatLoop: one command read from the terminal
ChatLoop(message) ==
  IF message = "clear"
  THEN /\ pc \in {"Idle", "Done"}
       /\ conversationHistory' = << >>
       /\ aliased' = {}
       /\ UNCHANGED <<pc, stateless, userMessage, messages, responseBody,
                      idx, finalText, assistantContent, pending, result,
                      httpStatus, log, histAtStart, turns, endpointVars, fnVars, registryVars, auxVars>>
  ELSE processQuery(message, FALSE, "cli", conversationHistory)

\* request bodies of POST /query: query absent, a non-string, "" or a string
Bodies == {[query |-> "absent"], [query |-> "number"],
           [query |-> "string", text |-> ""]}
          \cup {[query |-> "string", text |-> Query(turns + 1)]}

ValidBody(body) == body.query = "string" /\ body.text # ""

\* startEndpoint, app.post("/query"): reset, validate, processQuery(query)
StartEndpointQuery(body) ==
  IF ValidBody(body)
  THEN processQuery(body.text, FALSE, "http", << >>)
  ELSE /\ pc \in {"Idle", "Done"}
       /\ conversationHistory' = << >>
       /\ aliased' = {}
       /\ httpStatus' = 400
       /\ UNCHANGED <<pc, stateless, userMessage, messages, responseBody,
                      idx, finalText, assistantContent, pending, result,
                      log, histAtStart, turns, endpointVars, fnVars, registryVars, auxVars>>

\* the exported mcpProcessQuery(query, stateless) on the initialized singleton
McpProcessQuery(q, s) == processQuery(q, s, "module", conversationHistory)

\* a first invocation that is reissued once after a rejection
InvokeModelRejects_retry(reason) ==
  /\ pc = "InvokingModel"
  /\ IF \A i \in DOMAIN log : log[i].ev # "invokeRejected"
     THEN /\ log' = log \o <<[ev |-> "invokeRejected"],
                               [ev |-> "invoke", messages |-> messages]>>
          /\ UNCHANGED <<pc, result, httpStatus>>
     ELSE /\ log' = Append(log, [ev |-> "invokeRejected"])
          /\ Finish(CatchError(reason))
  /\ UNCHANGED <<conversationHistory, stateless, userMessage, messages,
                 responseBody, idx, finalText, assistantContent, pending,
                 histAtStart, aliased, turns, endpointVars, fnVars, registryVars, auxVars>>

\* line 192: bedrockClient.send rejects; control reaches the catch
InvokeModelRejects(reason) ==
  /\ pc = "InvokingModel"
  /\ log' = Append(log, [ev |-> "invokeRejected"])
  /\ Finish(CatchError(reason))
  /\ UNCHANGED <<conversationHistory, stateless, userMessage, messages,
                 responseBody, idx, finalText, assistantContent, pending,
                 histAtStart, aliased, turns, endpointVars, fnVars, registryVars, auxVars>>

\* lines 192-193: the first invocation resolves with content blocks
InvokeModelReturns(content) ==
  /\ pc = "InvokingModel"
  /\ log' = Append(log, [ev |-> "invokeReturned"])
  /\ responseBody' = content
  /\ idx' = 1
  /\ pc' = "Loop"
  /\ UNCHANGED <<conversationHistory, stateless, userMessage, messages,
                 finalText, assistantContent, pending, result, httpStatus,
                 histAtStart, aliased, turns, endpointVars, fnVars, registryVars, auxVars>>

\* lines 203-204 and 297-299: a text block
TextBlock ==
  /\ pc = "Loop"
  /\ idx <= Len(responseBody)
  /\ responseBody[idx].type = "text"
  /\ finalText' = Append(finalText, Text(responseBody[idx].text))
  /\ assistantContent' = IF stateless THEN assistantContent
                         ELSE Append(assistantContent, responseBody[idx])
  /\ idx' = idx + 1
  /\ UNCHANGED <<conversationHistory, pc, stateless, userMessage,
                 messages, responseBody, pending, result, httpStatus, log,
                 histAtStart, aliased, turns, endpointVars, fnVars, registryVars, auxVars>>

\* the callTool request built for a tool_use block (lines 210-219, 302-316)
ToolCall(content) ==
  LET optimized == optimizeQuery(content.name, content.input)
      sanitizedToolName == sanitizeToolName(optimized.name)
  IN [active |-> TRUE, id |-> content.id, block |-> content,
      sanitizedToolName |-> sanitizedToolName,
      name |-> mcpToolName(sanitizedToolName, optimized.name),
      arguments |-> optimized.args]

\* a tool_use block whose callTool is issued without being awaited
ToolUseBlock_noAwait ==
  /\ pc = "Loop"
  /\ idx <= Len(responseBody)
  /\ responseBody[idx].type = "tool_use"
  /\ pending' = ToolCall(responseBody[idx])
  /\ log' = Append(log, [ev |-> "callTool", id |-> responseBody[idx].id,
                         name |-> ToolCall(responseBody[idx]).name,
                         arguments |-> ToolCall(responseBody[idx]).arguments])
  /\ idx' = idx + 1
  /\ UNCHANGED <<conversationHistory, pc, stateless, userMessage, messages,
                 responseBody, finalText, assistantContent, result,
                 httpStatus, histAtStart, aliased, turns, endpointVars, fnVars, registryVars, auxVars>>

\* lines 205-219 and 300-316: a tool_use block, up to the await of callTool
ToolUseBlock ==
  /\ pc = "Loop"
  /\ idx <= Len(responseBody)
  /\ responseBody[idx].type = "tool_use"
  /\ pending' = ToolCall(responseBody[idx])
  /\ log' = Append(log, [ev |-> "callTool", id |-> responseBody[idx].id,
                         name |-> ToolCall(responseBody[idx]).name,
                         arguments |-> ToolCall(responseBody[idx]).arguments])
  /\ pc' = "CallingTool"
  /\ UNCHANGED <<conversationHistory, stateless, userMessage, messages,
                 responseBody, idx, finalText, assistantContent, result,
                 httpStatus, histAtStart, aliased, turns, endpointVars, fnVars, registryVars, auxVars>>

\* lines 220-222 (stateless: return the error string) and 317-322 (stateful:
\* push the error string and continue)
CallToolRejects(reason) ==
  /\ pc = "CallingTool"
  /\ log' = Append(log, [ev |-> "toolRejected", id |-> pending.id])
  /\ pending' = NoPending
  /\ IF stateless
     THEN /\ Finish(Returned(<<ToolFailedPiece(pending.sanitizedToolName, reason)>>))
          /\ UNCHANGED <<finalText, idx>>
     ELSE /\ finalText' = Append(finalText,
                            ToolFailedPiece(pending.sanitizedToolName, reason))
          /\ idx' = idx + 1
          /\ pc' = "Loop"
          /\ UNCHANGED <<result, httpStatus>>
  /\ UNCHANGED <<conversationHistory, stateless, userMessage, messages,
                 responseBody, assistantContent, histAtStart, aliased, turns, endpointVars, fnVars, registryVars, auxVars>>

\* a follow-up exchange that leaves out the turn's user message
followUpMessages_noUser(um, toolUseContent, toolResultContent) ==
  <<Message("assistant", <<toolUseContent>>),
    Message("user", <<toolResultContent>>)>>

\* lines 246-250: the follow-up exchange of the stateless branch
followUpMessages(um, toolUseContent, toolResultContent) ==
  <<um, Message("assistant", <<toolUseContent>>),
        Message("user", <<toolResultContent>>)>>

\* lines 224-279 (stateless: decode, build the follow-up, await it) and
\* 324-375 (stateful: record the tool_use, decode, push the result text)
CallToolReturns(res) ==
  /\ pc = "CallingTool"
  /\ pending' = NoPending
  /\ IF stateless
     THEN LET fm == followUpMessages(userMessage, pending.block,
                      ToolResult(pending.id, resultText(res)))
          IN /\ messages' = fm
             /\ log' = log \o <<[ev |-> "toolReturned", id |-> pending.id,
                                 text |-> resultText(res)],
                                [ev |-> "followUp", messages |-> fm]>>
             /\ pc' = "InvokingFollowUp"
             /\ UNCHANGED <<finalText, assistantContent, idx>>
     ELSE /\ assistantContent' =
               Append(assistantContent,
                      ToolUse(pending.id, pending.sanitizedToolName,
                              pending.arguments))
          /\ finalText' = IF Truthy(parsedResult(res))
                          THEN Append(finalText, Text(resultText(res)))
                          ELSE finalText
          /\ log' = Append(log, [ev |-> "toolReturned", id |-> pending.id,
                                 text |-> resultText(res)])
          /\ idx' = idx + 1
          /\ pc' = "Loop"
          /\ UNCHANGED messages
  /\ UNCHANGED <<conversationHistory, stateless, userMessage,
                 responseBody, result, httpStatus, histAtStart, aliased, turns, endpointVars, fnVars, registryVars, auxVars>>

\* line 279: the follow-up invocation rejects; control reaches the catch
FollowUpRejects(reason) ==
  /\ pc = "InvokingFollowUp"
  /\ log' = Append(log, [ev |-> "followUpRejected"])
  /\ Finish(CatchError(reason))
  /\ UNCHANGED <<conversationHistory, stateless, userMessage, messages,
                 responseBody, idx, finalText, assistantContent, pending,
                 histAtStart, aliased, turns, endpointVars, fnVars, registryVars, auxVars>>

\* the text blocks of a content list, as output pieces
RECURSIVE TextsOf(_)
TextsOf(content) ==
  IF content = << >> THEN << >>
  ELSE (IF Head(content).type = "text" THEN <<Text(Head(content).text)>>
        ELSE << >>) \o TextsOf(Tail(content))

\* lines 279-288: the follow-up resolves; its text blocks are pushed
FollowUpReturns(content) ==
  /\ pc = "InvokingFollowUp"
  /\ log' = Append(log, [ev |-> "followUpReturned", content |-> content])
  /\ finalText' = finalText \o TextsOf(content)
  /\ idx' = idx + 1
  /\ pc' = "Loop"
  /\ UNCHANGED <<conversationHistory, stateless, userMessage, messages,
                 responseBody, assistantContent, pending, result, httpStatus,
                 histAtStart, aliased, turns, endpointVars, fnVars, registryVars, auxVars>>

\* a loop whose exit test is off by one
LoopEnd_offByOne ==
  /\ pc = "Loop"
  /\ idx > Len(responseBody) + 1
  /\ Finish(Returned(finalText))
  /\ UNCHANGED <<conversationHistory, stateless, userMessage, messages,
                 responseBody, idx, finalText, assistantContent, pending, log,
                 histAtStart, aliased, turns, endpointVars, fnVars, registryVars, auxVars>>

\* lines 290 and 380: the loop is over, return finalText.join("\n")
LoopEnd ==
  /\ pc = "Loop"
  /\ idx > Len(responseBody)
  /\ Finish(Returned(finalText))
  /\ UNCHANGED <<conversationHistory, stateless, userMessage, messages,
                 responseBody, idx, finalText, assistantContent, pending, log,
                 histAtStart, aliased, turns, endpointVars, fnVars, registryVars, auxVars>>

Next ==
  \/ \E m \in {Query(turns + 1), "clear"} : ChatLoop(m)
  \/ \E b \in Bodies : StartEndpointQuery(b)
  \/ \E s \in BOOLEAN : McpProcessQuery(Query(turns + 1), s)
  \/ \E r \in Reasons : InvokeModelRejects(r)
  \/ \E sh \in ResponseShapes : InvokeModelReturns(ResponseContent(sh, turns))
  \/ TextBlock
  \/ ToolUseBlock
  \/ \E r \in Reasons : CallToolRejects(r)
  \/ \E res \in TurnToolResults : CallToolReturns(res)
  \/ \E r \in Reasons : FollowUpRejects(r)
  \/ \E c \in FollowUpResponses : FollowUpReturns(c)
  \/ LoopEnd

Spec == Init /\ [][Next]_vars

\* the steps of a turn under way: the completions of its network calls and
\* the statements of its loop
TurnStep ==
  \/ \E r \in Reasons : InvokeModelRejects(r)
  \/ \E sh \in ResponseShapes : InvokeModelReturns(ResponseContent(sh, turns))
  \/ TextBlock
  \/ ToolUseBlock
  \/ \E r \in Reasons : CallToolRejects(r)
  \/ \E res \in TurnToolResults : CallToolReturns(res)
  \/ \E r \in Reasons : FollowUpRejects(r)
  \/ \E c \in FollowUpResponses : FollowUpReturns(c)
  \/ LoopEnd

\* turns started through mcpProcessQuery, in either mode
NextLive ==
  \/ \E s \in BOOLEAN : McpProcessQuery(Query(turns + 1), s)
  \/ TurnStep

\* the turns of the source under the assumption that every network call
\* eventually returns or rejects and that the event loop runs the turn's
\* continuations
SpecLive == Init /\ [][NextLive]_vars /\ WF_vars(TurnStep)

----------------------------------------------------------------------------
(* The compiled build: EnhancedMCPClient.processQuery(query) of part_001.  *)
(* Its entry, model invocation, tool call and rejection handling are the   *)
(* same statements as the stateful path of the source and reuse the        *)
(* actions above with stateless = FALSE.                                   *)

\* conversationHistory as read once assistantContent, which the messages at
\* the indices al hold by reference, has become ac
WithAlias(hist, al, ac) ==
  [i \in DOMAIN hist |->
     IF i \in al THEN [hist[i] EXCEPT !.content = ac] ELSE hist[i]]

\* the build's calls explored: a call starts while the number of calls and the
\* length of the conversation it finds are within the bounds
BuildMayStart ==
  /\ turns < MaxBuildTurns
  /\ Len(conversationHistory) < MaxBuildHistory

\* part_001 lines 327-332: mcpProcessQuery(query); endpoint.js passes a
\* second argument, which this build ignores
BuildMcpProcessQuery(q) ==
  /\ BuildMayStart
  /\ processQuery(q, FALSE, "module", conversationHistory)

\* part_001 lines 338-350: app.post("/query") of the build, without a reset
BuildStartEndpointQuery(body) ==
  IF ValidBody(body)
  THEN /\ BuildMayStart
       /\ processQuery(body.text, FALSE, "http", conversationHistory)
  ELSE /\ pc \in {"Idle", "Done"}
       /\ httpStatus' = 400
       /\ UNCHANGED <<pc, conversationHistory, aliased, stateless,
                      userMessage, messages, responseBody, idx, finalText,
                      assistantContent, pending, result, log, histAtStart,
                      turns, endpointVars, fnVars, registryVars, auxVars>>

\* part_001 lines 277-303: chatLoop of the build, the same statements as the
\* source's
BuildChatLoop(message) ==
  /\ message # "clear" => BuildMayStart
  /\ ChatLoop(message)

\* part_001 lines 134-137: a text block is pushed to finalText and to
\* assistantContent, which earlier history entries of the call may hold
BuildTextBlock ==
  /\ pc = "Loop"
  /\ idx <= Len(responseBody)
  /\ responseBody[idx].type = "text"
  /\ finalText' = Append(finalText, Text(responseBody[idx].text))
  /\ assistantContent' = Append(assistantContent, responseBody[idx])
  /\ conversationHistory' =
       WithAlias(conversationHistory, aliased,
                 Append(assistantContent, responseBody[idx]))
  /\ idx' = idx + 1
  /\ UNCHANGED <<pc, stateless, userMessage, messages, responseBody,
                 pending, result, httpStatus, log, histAtStart, aliased, turns, endpointVars, fnVars, registryVars, auxVars>>

\* part_001 lines 160-242: the tool call resolved; record the tool_use, decode,
\* push the assistant and tool-result messages, await the follow-up
BuildCallToolReturns(res) ==
  LET ac == Append(assistantContent,
                   ToolUse(pending.id, pending.sanitizedToolName,
                           pending.arguments))
      h1 == WithAlias(conversationHistory, aliased, ac)
      h2 == h1 \o <<Message("assistant", ac),
                    Message("user", <<ToolResult(pending.id, resultText(res))>>)>>
  IN /\ pc = "CallingTool"
     /\ pending' = NoPending
     /\ assistantContent' = ac
     /\ conversationHistory' = h2
     /\ aliased' = aliased \cup {Len(h1) + 1}
     /\ messages' = h2
     /\ log' = log \o <<[ev |-> "toolReturned", id |-> pending.id,
                         text |-> resultText(res)],
                        [ev |-> "followUp", messages |-> h2]>>
     /\ pc' = "InvokingFollowUp"
     /\ UNCHANGED <<stateless, userMessage, responseBody, idx,
                    finalText, result, httpStatus, histAtStart, turns, endpointVars, fnVars, registryVars, auxVars>>

\* part_001 lines 242-252: the follow-up resolved; only a leading text block
\* is used, and it is pushed to finalText and to the history
BuildFollowUpReturns(content) ==
  /\ pc = "InvokingFollowUp"
  /\ log' = Append(log, [ev |-> "followUpReturned", content |-> content])
  /\ IF content # << >> /\ content[1].type = "text"
     THEN /\ finalText' = Append(finalText, Text(content[1].text))
          /\ conversationHistory' =
               Append(conversationHistory,
                      Message("assistant", <<Text(content[1].text)>>))
     ELSE UNCHANGED <<finalText, conversationHistory>>
  /\ idx' = idx + 1
  /\ pc' = "Loop"
  /\ UNCHANGED <<stateless, userMessage, messages, responseBody,
                 assistantContent, pending, result, httpStatus, histAtStart,
                 aliased, turns, endpointVars, fnVars, registryVars, auxVars>>

\* first responses the build is run on: text blocks and calls of one tool
BuildResponseShapes == SeqsUpTo({"text", "list_tables"}, MaxBlocks)

NextBuild ==
  \/ \E m \in {Query(turns + 1), "clear"} : BuildChatLoop(m)
  \/ \E b \in Bodies : BuildStartEndpointQuery(b)
  \/ BuildMcpProcessQuery(Query(turns + 1))
  \/ \E r \in Reasons : InvokeModelRejects(r)
  \/ \E sh \in BuildResponseShapes : InvokeModelReturns(ResponseContent(sh, turns))
  \/ BuildTextBlock
  \/ ToolUseBlock
  \/ \E r \in Reasons : CallToolRejects(r)
  \/ \E res \in TurnToolResults : BuildCallToolReturns(res)
  \/ \E r \in Reasons : FollowUpRejects(r)
  \/ \E c \in FollowUpResponses : BuildFollowUpReturns(c)
  \/ LoopEnd

SpecBuild == Init /\ [][NextBuild]_vars

----------------------------------------------------------------------------
(* The standalone server, src/endpoint.js: it initializes the client module *)
(* in the background, listens at once, and serves POST /query by calling    *)
(* mcpProcessQuery(query, true).                                            *)

\* lines 19-21 and 150-152: initMCPClient resolved
ConnectResolves ==
  /\ startup = "connecting"
  /\ startup' = "connected"
  /\ mcpReady' = TRUE
  /\ UNCHANGED <<conversationHistory, pc, stateless, userMessage, messages,
                 responseBody, idx, finalText, assistantContent, pending,
                 result, httpStatus, log, histAtStart, aliased, turns, fnVars, registryVars, auxVars>>

\* lines 22-24 and 153-155: the import or initMCPClient rejected; the catch
\* logs the error and the process keeps listening
ConnectRejects ==
  /\ startup = "connecting"
  /\ startup' = "failed"
  /\ UNCHANGED <<conversationHistory, pc, stateless, userMessage, messages,
                 responseBody, idx, finalText, assistantContent, pending,
                 result, httpStatus, log, histAtStart, aliased, turns,
                 mcpReady, fnVars, registryVars, auxVars>>

\* !query: the field is absent or the empty string; a number other than 0
\* is truthy
Falsy(body) ==
  \/ body.query = "absent"
  \/ body.query = "string" /\ body.text = ""

\* the value of req.body.query handed to mcpProcessQuery
QueryOf(body) == IF body.query = "number" THEN "42" ELSE body.text

\* the handler answers without calling the client module
Answer(status) ==
  /\ httpStatus' = status
  /\ UNCHANGED <<conversationHistory, pc, stateless, userMessage, messages,
                 responseBody, idx, finalText, assistantContent, pending,
                 result, log, histAtStart, aliased, turns, endpointVars,
                 fnVars, registryVars, auxVars>>

\* a handler that does not look at mcpReady
EndpointQuery_noGate(body) ==
  /\ pc \in {"Idle", "Done"}
  /\ IF Falsy(body) THEN Answer(400)
     ELSE processQuery(QueryOf(body), TRUE, "http", conversationHistory)

\* lines 27-53 and 158-172: app.post('/query'); mcpProcessQuery(query, true)
\* is processQuery(query, true) on the module's client instance
EndpointQuery(body) ==
  /\ pc \in {"Idle", "Done"}
  /\ IF ~mcpReady THEN Answer(503)
     ELSE IF Falsy(body) THEN Answer(400)
     ELSE processQuery(QueryOf(body), TRUE, "http", conversationHistory)

NextEndpoint ==
  \/ ConnectResolves
  \/ ConnectRejects
  \/ \E b \in Bodies : EndpointQuery(b)
  \/ \E r \in Reasons : InvokeModelRejects(r)
  \/ \E shape \in ResponseShapes :
       InvokeModelReturns(ResponseContent(shape, turns))
  \/ TextBlock
  \/ ToolUseBlock
  \/ \E r \in Reasons : CallToolRejects(r)
  \/ \E res \in TurnToolResults : CallToolReturns(res)
  \/ \E r \in Reasons : FollowUpRejects(r)
  \/ \E c \in FollowUpResponses : FollowUpReturns(c)
  \/ LoopEnd

SpecEndpoint == Init /\ [][NextEndpoint]_vars

----------------------------------------------------------------------------
(* The optimizer as a pure function: optimizeQuery(toolName, toolArgs) *)

\* key conditions a point-query call may carry; the empty one is falsy
KeyConditions ==
  {Str_AgeGt,
   <<"N","a","m","e"," ","="," ",":","n">>,
   <<"N","a","m","e"," ","="," ",":","n"," ","A","N","D"," ","A","g","e"," ",">"," ",":","a">>,
   <<"#","n","a","m","e"," ","="," ",":","n"," ","A","N","D"," ","A","g","e"," ",">"," ",":","a">>,
   <<"A","g","e">>,
   << >>}

\* the fields of a tool_use input other than the key condition
OtherFields ==
  {"tableName", "expressionAttributeNames", "expressionAttributeValues",
   "limit", "filterExpression", "indexName", "scanIndexForward"}

FieldValue(f) ==
  CASE f = "tableName" -> "Users"
    [] f = "expressionAttributeNames" -> [hname |-> "Name"]
    [] f = "expressionAttributeValues" -> [a |-> 30]
    [] f = "limit" -> 10
    [] f = "filterExpression" -> <<"A","g","e"," ","<"," ",":","b">>
    [] f = "indexName" -> "AgeIndex"
    [] f = "scanIndexForward" -> FALSE

\* toolArgs objects: any subset of the other fields, with or without a key
\* condition
OptimizeArgs ==
  {[f \in D |-> FieldValue(f)] : D \in SUBSET OtherFields}
  \cup {[f \in D \cup {"keyConditionExpression"} |->
           IF f = "keyConditionExpression" THEN kc ELSE FieldValue(f)] :
          D \in SUBSET OtherFields, kc \in KeyConditions}

\* tool names optimizeQuery may be handed: original and sanitized
OptimizeNames ==
  {QUERY_TABLE, SCAN_TABLE, sanitizeToolName(QUERY_TABLE)}

InitOptimize ==
  /\ conversationHistory = << >>
  /\ pc = "Idle"
  /\ stateless = FALSE
  /\ userMessage = Message("user", << >>)
  /\ messages = << >>
  /\ responseBody = << >>
  /\ idx = 0
  /\ finalText = << >>
  /\ assistantContent = << >>
  /\ pending = NoPending
  /\ result = NoResult
  /\ httpStatus = 0
  /\ log = << >>
  /\ histAtStart = << >>
  /\ aliased = {}
  /\ turns = 0
  /\ startup = "connecting"
  /\ mcpReady = FALSE
  /\ fnIn \in {[fn |-> "optimizeQuery", toolName |-> n, toolArgs |-> a] :
                 n \in OptimizeNames, a \in OptimizeArgs}
  /\ fnOut = [fn |-> "none"]
  /\ clientTools = tools
  /\ nameMapping = sanitizedToOriginalToolName
  /\ connecting = FALSE
  /\ AuxIdle

\* lines 115-138: one call of optimizeQuery
ApplyOptimizeQuery ==
  /\ fnIn.fn = "optimizeQuery"
  /\ fnOut.fn = "none"
  /\ fnOut' = [fn |-> "optimizeQuery",
               value |-> optimizeQuery(fnIn.toolName, fnIn.toolArgs)]
  /\ UNCHANGED <<conversationHistory, pc, stateless, userMessage, messages,
                 responseBody, idx, finalText, assistantContent, pending,
                 result, httpStatus, log, histAtStart, aliased, turns,
                 endpointVars, fnIn, registryVars, auxVars>>

NextOptimize == ApplyOptimizeQuery

SpecOptimize == InitOptimize /\ [][NextOptimize]_vars

----------------------------------------------------------------------------
(* sanitizeToolName as a pure function *)

\* the client at rest: no turn, no request, startup not yet settled
IdleClient ==
  /\ conversationHistory = << >>
  /\ pc = "Idle"
  /\ stateless = FALSE
  /\ userMessage = Message("user", << >>)
  /\ messages = << >>
  /\ responseBody = << >>
  /\ idx = 0
  /\ finalText = << >>
  /\ assistantContent = << >>
  /\ pending = NoPending
  /\ result = NoResult
  /\ httpStatus = 0
  /\ log = << >>
  /\ histAtStart = << >>
  /\ aliased = {}
  /\ turns = 0
  /\ startup = "connecting"
  /\ mcpReady = FALSE

\* characters names are drawn from: of each range of the class, the two
\* literal members of the class, and characters outside it
NameChars == {"a", "Z", "7", "_", "-", ":", " ", "."}

Names == SeqsUpTo(NameChars, MaxNameLen)

InitSanitize ==
  /\ IdleClient
  /\ fnIn \in {[fn |-> "sanitizeToolName", name |-> n] : n \in Names}
  /\ fnOut = [fn |-> "none"]
  /\ clientTools = tools
  /\ nameMapping = sanitizedToOriginalToolName
  /\ connecting = FALSE
  /\ AuxIdle

\* lines 141-143: sanitizeToolName(name)
ApplySanitize ==
  /\ fnOut.fn = "none"
  /\ fnOut' = [fn |-> "sanitizeToolName", value |-> sanitizeToolName(fnIn.name)]
  /\ UNCHANGED <<conversationHistory, pc, stateless, userMessage, messages,
                 responseBody, idx, finalText, assistantContent, pending,
                 result, httpStatus, log, histAtStart, aliased, turns,
                 endpointVars, fnIn, registryVars, auxVars>>

\* lines 141-143: sanitizeToolName applied to a name it returned
ApplySanitizeAgain ==
  /\ fnOut.fn = "sanitizeToolName"
  /\ fnOut' = [fn |-> "sanitizeTwice", value |-> fnOut.value,
               again |-> sanitizeToolName(fnOut.value)]
  /\ UNCHANGED <<conversationHistory, pc, stateless, userMessage, messages,
                 responseBody, idx, finalText, assistantContent, pending,
                 result, httpStatus, log, histAtStart, aliased, turns,
                 endpointVars, fnIn, registryVars, auxVars>>

NextSanitize == ApplySanitize \/ ApplySanitizeAgain

SpecSanitize == InitSanitize /\ [][NextSanitize]_vars

----------------------------------------------------------------------------
(* The tool registry: connectToServer fetches the catalog and rebuilds the  *)
(* mapping; processQuery resolves the name of a tool_use block through it.  *)

\* tool names a server may list: three that sanitize to a_b, one of them
\* clean, and a clean one that collides with nothing
Tool_a_b     == <<"a", "_", "b">>
Tool_a_colon == <<"a", ":", "b">>
Tool_a_dot   == <<"a", ".", "b">>
Tool_c       == <<"c">>

RegistryNames == {Tool_a_b, Tool_a_colon, Tool_a_dot, Tool_c}

\* catalogs listTools may return: a tool's name identifies it, so a catalog
\* lists a name once
Catalogs ==
  {ts \in SeqsUpTo(RegistryNames, MaxCatalog) :
     \A i, j \in DOMAIN ts : ts[i] = ts[j] => i = j}

InitRegistry ==
  /\ IdleClient
  /\ fnIn = [fn |-> "none"]
  /\ fnOut = [fn |-> "none"]
  /\ clientTools = << >>
  /\ nameMapping = << >>
  /\ connecting = FALSE
  /\ AuxIdle

\* lines 71-90: connectToServer up to the await of connect and listTools
ConnectToServer ==
  /\ ~connecting
  /\ connecting' = TRUE
  /\ UNCHANGED <<conversationHistory, pc, stateless, userMessage, messages,
                 responseBody, idx, finalText, assistantContent, pending,
                 result, httpStatus, log, histAtStart, aliased, turns,
                 endpointVars, fnVars, clientTools, nameMapping,
                 auxVars>>

\* a fetch that adds the new catalog's entries to the mapping it finds
ListToolsReturns_noReset(catalog) ==
  /\ connecting
  /\ clientTools' = catalog
  /\ nameMapping' = BuildMapping(catalog, nameMapping)
  /\ connecting' = FALSE
  /\ UNCHANGED <<conversationHistory, pc, stateless, userMessage, messages,
                 responseBody, idx, finalText, assistantContent, pending,
                 result, httpStatus, log, histAtStart, aliased, turns,
                 endpointVars, fnVars, auxVars>>

\* lines 90-101: listTools resolved; this.tools is replaced and the mapping
\* is emptied and refilled before the next await
ListToolsReturns(catalog) ==
  /\ connecting
  /\ clientTools' = catalog
  /\ nameMapping' = BuildMapping(catalog, << >>)
  /\ connecting' = FALSE
  /\ UNCHANGED <<conversationHistory, pc, stateless, userMessage, messages,
                 responseBody, idx, finalText, assistantContent, pending,
                 result, httpStatus, log, histAtStart, aliased, turns,
                 endpointVars, fnVars, auxVars>>

\* lines 88-90 and 108-111: connect or listTools rejected; the error is
\* rethrown and the registry is left as it was
ConnectToServerThrows ==
  /\ connecting
  /\ connecting' = FALSE
  /\ UNCHANGED <<conversationHistory, pc, stateless, userMessage, messages,
                 responseBody, idx, finalText, assistantContent, pending,
                 result, httpStatus, log, histAtStart, aliased, turns,
                 endpointVars, fnVars, clientTools, nameMapping,
                 auxVars>>

\* lines 210-212 and 302-304: the name of a tool_use block is sanitized and
\* looked up; n is optimized.name
ResolveName(n) ==
  /\ fnIn' = [fn |-> "resolve", name |-> n]
  /\ fnOut' = [fn |-> "resolve", sanitized |-> sanitizeToolName(n),
               value |-> mcpToolNameIn(nameMapping, sanitizeToolName(n), n)]
  /\ UNCHANGED <<conversationHistory, pc, stateless, userMessage, messages,
                 responseBody, idx, finalText, assistantContent, pending,
                 result, httpStatus, log, histAtStart, aliased, turns,
                 endpointVars, registryVars, auxVars>>

NextRegistry ==
  \/ ConnectToServer
  \/ \E catalog \in Catalogs : ListToolsReturns(catalog)
  \/ ConnectToServerThrows
  \/ \E n \in RegistryNames : ResolveName(n)

SpecRegistry == InitRegistry /\ [][NextRegistry]_vars

----------------------------------------------------------------------------
(* The decoder of tool results, at both places processQuery holds a copy    *)

InitDecode ==
  /\ IdleClient
  /\ fnIn \in {[fn |-> "decode", stateless |-> sl, result |-> r] :
                 sl \in BOOLEAN, r \in ToolResults}
  /\ fnOut = [fn |-> "none"]
  /\ clientTools = tools
  /\ nameMapping = sanitizedToOriginalToolName
  /\ connecting = FALSE
  /\ AuxIdle

\* lines 224-237 (stateless) and 332-347 (stateful): the decode of result
ApplyDecode ==
  /\ fnIn.fn = "decode"
  /\ fnOut.fn = "none"
  /\ fnOut' = [fn |-> "decode"] @@ DecodeToolResult(fnIn.result)
  /\ UNCHANGED <<conversationHistory, pc, stateless, userMessage, messages,
                 responseBody, idx, finalText, assistantContent, pending,
                 result, httpStatus, log, histAtStart, aliased, turns,
                 endpointVars, fnIn, registryVars, auxVars>>

NextDecode == ApplyDecode

SpecDecode == InitDecode /\ [][NextDecode]_vars

----------------------------------------------------------------------------
(* The mcp-dynamo server, src/unnamed/part_001 from line 490: queryTable    *)
(* and the scanTable it falls back to.  An object is a function from the    *)
(* names of its defined fields; a value that may be undefined is a record   *)
(* with a defined flag.                                                      *)

Undefined == [defined |-> FALSE]
Some(v) == [defined |-> TRUE, value |-> v]

\* o.f, undefined when the object has no such field
Field(o, f) == IF f \in DOMAIN o THEN Some(o[f]) ELSE Undefined

\* an object literal: the fields whose value is undefined are not sent
Defined(o) == [f \in {g \in DOMAIN o : o[g].defined} |-> o[f].value]

\* keys of an attribute-name map: one the key condition uses, one the filter
\* uses, and the bare "#"
Key_a    == <<"#", "a">>
Key_b    == <<"#", "b">>
Key_hash == <<"#">>

QueryKeyConditions ==
  {<<"#", "a", " ", "=", " ", ":", "v">>, <<"I", "d", " ", "=", " ", ":", "v">>}

QueryFilter == <<"#", "b", " ", ">", " ", ":", "v">>

\* attribute-name maps: every set of the keys, the empty object included
NameMaps == {[k \in K |-> "Age"] : K \in SUBSET {Key_a, Key_b, Key_hash}}

\* attribute values: a plain number, a wrapped number {N: "30"}, a wrapped
\* string {S: "x"}
PlainNumber   == [wrapper |-> "none", type |-> "number", lit |-> "30"]
WrappedNumber == [wrapper |-> "N", type |-> "string", lit |-> "30"]
WrappedString == [wrapper |-> "S", type |-> "string", lit |-> "x"]

\* expressionAttributeValues as handed in: an object, the JSON text of one,
\* or a text that is no JSON
ValueMaps ==
  {[form |-> f, map |-> [k \in {"v"} |-> a]] :
     f \in {"object", "json"}, a \in {PlainNumber, WrappedNumber, WrappedString}}
  \cup {[form |-> "badjson", map |-> [k \in {} |-> PlainNumber]]}

QueryOptional == {"filterExpression", "indexName", "limit", "scanIndexForward"}

QueryFieldValue(f) ==
  CASE f = "tableName" -> "Users"
    [] f = "filterExpression" -> QueryFilter
    [] f = "indexName" -> "AgeIndex"
    [] f = "limit" -> 10
    [] f = "scanIndexForward" -> FALSE

\* the params of a dynamodb:query_table call
QueryParams ==
  {[f \in D \cup {"tableName"} |-> QueryFieldValue(f)]
     @@ [f \in {"keyConditionExpression"} |-> kc] @@ ns @@ vs :
     D \in SUBSET QueryOptional,
     kc \in QueryKeyConditions,
     ns \in {[f \in {} |-> 0]}
            \cup {[f \in {"expressionAttributeNames"} |-> n] : n \in NameMaps},
     vs \in {[f \in {} |-> 0]}
            \cup {[f \in {"expressionAttributeValues"} |-> v] : v \in ValueMaps}}

\* lines 738-763: normalizeAttributeValues
normalizeAttributeValues(exprAttrVals) ==
  IF ~exprAttrVals.defined THEN Undefined
  ELSE IF exprAttrVals.value.form = "badjson" THEN Undefined
  ELSE LET m == exprAttrVals.value.map
       IN Some([k \in DOMAIN m |->
                  CASE m[k].wrapper = "N" ->
                         [wrapper |-> "none", type |-> "number", lit |-> m[k].lit]
                    [] m[k].wrapper = "S" ->
                         [wrapper |-> "none", type |-> "string", lit |-> m[k].lit]
                    [] OTHER -> m[k]])

\* marshall of the DynamoDB utilities: a number becomes {N: text}, a string
\* {S: text}
marshall(m) ==
  [k \in DOMAIN m |->
     [wrapper |-> IF m[k].type = "number" THEN "N" ELSE "S",
      type |-> "string", lit |-> m[k].lit]]

\* Array.prototype.join(" ")
RECURSIVE JoinSpace(_)
JoinSpace(es) ==
  IF es = << >> THEN << >>
  ELSE IF Len(es) = 1 THEN es[1]
  ELSE es[1] \o <<" ">> \o JoinSpace(Tail(es))

\* [a, b].filter(Boolean)
FilterBoolean(os) ==
  LET kept == SelectSeq(os, LAMBDA o : o.defined /\ o.value # << >>)
  IN [i \in DOMAIN kept |-> kept[i].value]

InvalidKeyError ==
  [name |-> "Error", stringMessage |-> TRUE,
   message |-> <<"Invalid ExpressionAttributeNames key: \"#\" is not allowed. Use descriptive names like \"#age\", \"#name\".">>]

\* lines 765-781: cleanExpressionAttributeNames
cleanExpressionAttributeNames(expressionAttributeNames, expressions) ==
  IF ~expressionAttributeNames.defined
  THEN [throws |-> FALSE, value |-> Undefined]
  ELSE LET names == expressionAttributeNames.value
           combinedExpression == JoinSpace(expressions)
           kept == {k \in DOMAIN names : Includes(combinedExpression, k)}
       IN IF Key_hash \in DOMAIN names
          THEN [throws |-> TRUE, error |-> InvalidKeyError]
          ELSE [throws |-> FALSE,
                value |-> IF kept = {} THEN Undefined
                          ELSE Some([k \in kept |-> names[k]])]

\* the validation failures that make queryTable fall back
MISSED_KEY  == "Query condition missed key schema element"
INVALID_KCE == "Invalid KeyConditionExpression"
SYNTAX_ERR  == "Syntax error"

Validation(message) ==
  [name |-> "ValidationException", stringMessage |-> TRUE, message |-> message]

\* rejections of dynamoClient.send: the three qualifying failures, a
\* validation failure of another kind, one without a message text, and
\* failures that are no validation failure
StoreErrors ==
  {Validation(<<MISSED_KEY, ": Name">>),
   Validation(<<INVALID_KCE, ": bad operand">>),
   Validation(<<"Invalid FilterExpression: ", SYNTAX_ERR, "; token: \"#\"">>),
   Validation(<<"ExpressionAttributeValues contains invalid value">>),
   [name |-> "ValidationException", stringMessage |-> FALSE, message |-> << >>],
   [name |-> "ResourceNotFoundException", stringMessage |-> TRUE,
    message |-> <<"Requested resource not found">>],
   [name |-> "InternalServerError", stringMessage |-> TRUE,
    message |-> <<SYNTAX_ERR, " in request">>]}

\* responses of dynamoClient.send: without and with Items
StoreResponses ==
  {[hasItems |-> FALSE, Items |-> << >>], [hasItems |-> TRUE, Items |-> <<"u1">>]}

\* a fallback for every validation failure, whatever its message
Qualifies_anyValidation(error) == error.name = "ValidationException"

\* lines 1325-1333: the test of queryTable's catch
Qualifies(error) ==
  /\ error.name = "ValidationException"
  /\ error.stringMessage
  /\ \/ Includes(error.message, <<MISSED_KEY>>)
     \/ Includes(error.message, <<INVALID_KCE>>)
     \/ Includes(error.message, <<SYNTAX_ERR>>)

\* `${error.message || error}`
MessageOrError(error) ==
  IF error.stringMessage /\ error.message # << >> THEN error.message
  ELSE <<error.name>>

\* ` (index: ${params.indexName})` when there is an index
IndexSuffix(params) ==
  IF "indexName" \in DOMAIN params
  THEN <<" (index: ", params["indexName"], ")">> ELSE << >>

\* lines 1302-1311: the QueryCommand's input
QueryInput(params) ==
  LET normalizedValues ==
        normalizeAttributeValues(Field(params, "expressionAttributeValues"))
      cleanedNames ==
        cleanExpressionAttributeNames(
          Field(params, "expressionAttributeNames"),
          FilterBoolean(<<Field(params, "keyConditionExpression"),
                          Field(params, "filterExpression")>>))
  IN Defined([TableName |-> Field(params, "tableName"),
              IndexName |-> Field(params, "indexName"),
              KeyConditionExpression |-> Field(params, "keyConditionExpression"),
              ExpressionAttributeValues |->
                IF normalizedValues.defined
                THEN Some(marshall(normalizedValues.value)) ELSE Undefined,
              ExpressionAttributeNames |-> cleanedNames.value,
              FilterExpression |-> Field(params, "filterExpression"),
              Limit |-> Field(params, "limit"),
              ScanIndexForward |-> Field(params, "scanIndexForward")])

\* lines 1376-1383: the ScanCommand's input
ScanInput(params) ==
  LET normalizedValues ==
        normalizeAttributeValues(Field(params, "expressionAttributeValues"))
      cleanedNames ==
        cleanExpressionAttributeNames(
          Field(params, "expressionAttributeNames"),
          FilterBoolean(<<Field(params, "filterExpression")>>))
  IN Defined([TableName |-> Field(params, "tableName"),
              IndexName |-> Field(params, "indexName"),
              FilterExpression |-> Field(params, "filterExpression"),
              ExpressionAttributeValues |->
                IF normalizedValues.defined
                THEN Some(marshall(normalizedValues.value)) ELSE Undefined,
              ExpressionAttributeNames |-> cleanedNames.value,
              Limit |-> Field(params, "limit")])

\* fallback params that leave the limit behind
scanParams_dropLimit(params) ==
  Defined([tableName |-> Field(params, "tableName"),
           indexName |-> Field(params, "indexName"),
           filterExpression |-> Field(params, "keyConditionExpression"),
           expressionAttributeNames |-> Field(params, "expressionAttributeNames"),
           expressionAttributeValues |-> Field(params, "expressionAttributeValues")])

\* lines 1336-1343: the params of the fallback scan
scanParams(params) ==
  Defined([tableName |-> Field(params, "tableName"),
           indexName |-> Field(params, "indexName"),
           filterExpression |-> Field(params, "keyConditionExpression"),
           expressionAttributeNames |-> Field(params, "expressionAttributeNames"),
           expressionAttributeValues |-> Field(params, "expressionAttributeValues"),
           limit |-> Field(params, "limit")])

QUERY_OK_PIECE     == "Query executed successfully on table "
SCAN_OK_PIECE      == "Scan executed successfully on table "
QUERY_FAILED_PIECE == "Failed to query table: "
SCAN_FAILED_PIECE  == "Failed to scan table: "
CONVERTED_PIECE    == "Query converted to scan: "
BOTH_FAILED_PIECE  == "Query failed and scan fallback also failed: "

\* lines 1314-1323 and 1387-1396: the result of a command that resolved
SuccessResult(piece, params, response) ==
  [success |-> TRUE,
   message |-> <<piece, params["tableName"]>> \o IndexSuffix(params),
   items |-> IF response.hasItems THEN response.Items ELSE << >>]

\* lines 1358-1364 and 1397-1405: the result of a command that failed
FailureResult(piece, error) ==
  [success |-> FALSE,
   message |-> <<piece>> \o MessageOrError(error),
   items |-> << >>,
   errorType |-> error.name]

\* lines 1369-1405: how a scanTable call settles once its command has; its
\* catch returns the failure, so the call never throws
scanTableSettles(params, outcome) ==
  [threw |-> FALSE,
   value |-> IF outcome.ok
             THEN SuccessResult(SCAN_OK_PIECE, params, outcome.response)
             ELSE FailureResult(SCAN_FAILED_PIECE, outcome.error)]

\* lines 1344-1355: what queryTable returns after its scanTable call
FallbackResult(settled) ==
  IF settled.threw
  THEN [success |-> FALSE,
        message |-> <<BOTH_FAILED_PIECE>> \o MessageOrError(settled.error),
        items |-> << >>]
  ELSE [settled.value EXCEPT !.message = <<CONVERTED_PIECE>> \o @]

StoreCall(op, input) == [op |-> op, input |-> input]
Rejected(error) == [op |-> "rejected", error |-> error]

\* lines 1324-1365: queryTable's catch, after the calls made so far
QueryTableCatch(error, calls) ==
  LET params == fnIn.params
      sp == scanParams(params)
      cleaned == cleanExpressionAttributeNames(
                   Field(sp, "expressionAttributeNames"),
                   FilterBoolean(<<Field(sp, "filterExpression")>>))
      called == Append(calls, [op |-> "scanTable", params |-> sp])
  IN IF Qualifies(error)
     THEN IF cleaned.throws
          THEN /\ srvPc' = "returned"
               /\ dbCalls' = called
               /\ fnOut' = [fn |-> "queryTable",
                            value |-> FallbackResult(scanTableSettles(sp,
                                        [ok |-> FALSE, error |-> cleaned.error]))]
          ELSE /\ srvPc' = "awaitScan"
               /\ dbCalls' = Append(called, StoreCall("ScanCommand", ScanInput(sp)))
               /\ fnOut' = fnOut
     ELSE /\ srvPc' = "returned"
          /\ dbCalls' = calls
          /\ fnOut' = [fn |-> "queryTable",
                       value |-> FailureResult(QUERY_FAILED_PIECE, error)]

InitQuery ==
  /\ IdleClient
  /\ fnIn \in {[fn |-> "queryTable", params |-> p] : p \in QueryParams}
  /\ fnOut = [fn |-> "none"]
  /\ clientTools = tools
  /\ nameMapping = sanitizedToOriginalToolName
  /\ connecting = FALSE
  /\ ServerIdle
  /\ SingletonIdle
  /\ DebugIdle

\* lines 1294-1312: queryTable up to its await; a rejected attribute-name
\* map lands in the catch before anything is sent
QueryTableCalled ==
  LET params == fnIn.params
      cleaned == cleanExpressionAttributeNames(
                   Field(params, "expressionAttributeNames"),
                   FilterBoolean(<<Field(params, "keyConditionExpression"),
                                   Field(params, "filterExpression")>>))
  IN /\ fnIn.fn = "queryTable"
     /\ srvPc = "idle"
     /\ IF cleaned.throws
        THEN QueryTableCatch(cleaned.error, dbCalls)
        ELSE /\ srvPc' = "awaitQuery"
             /\ dbCalls' = Append(dbCalls,
                                  StoreCall("QueryCommand", QueryInput(params)))
             /\ fnOut' = fnOut
     /\ UNCHANGED <<conversationHistory, pc, stateless, userMessage, messages,
                    responseBody, idx, finalText, assistantContent, pending,
                    result, httpStatus, log, histAtStart, aliased, turns,
                    endpointVars, fnIn, registryVars, singletonVars,
                    debugVars>>

\* lines 1312-1323: the QueryCommand resolves
QueryResolves(response) ==
  /\ srvPc = "awaitQuery"
  /\ srvPc' = "returned"
  /\ fnOut' = [fn |-> "queryTable",
               value |-> SuccessResult(QUERY_OK_PIECE, fnIn.params, response)]
  /\ UNCHANGED <<conversationHistory, pc, stateless, userMessage, messages,
                 responseBody, idx, finalText, assistantContent, pending,
                 result, httpStatus, log, histAtStart, aliased, turns,
                 endpointVars, fnIn, registryVars, dbCalls, singletonVars,
                 debugVars>>

\* lines 1324-1365: the QueryCommand is rejected
QueryRejects(error) ==
  /\ srvPc = "awaitQuery"
  /\ QueryTableCatch(error, Append(dbCalls, Rejected(error)))
  /\ UNCHANGED <<conversationHistory, pc, stateless, userMessage, messages,
                 responseBody, idx, finalText, assistantContent, pending,
                 result, httpStatus, log, histAtStart, aliased, turns,
                 endpointVars, fnIn, registryVars, singletonVars, debugVars>>

\* lines 1385-1396 and 1344-1346: the fallback's ScanCommand resolves
ScanResolves(response) ==
  /\ srvPc = "awaitScan"
  /\ srvPc' = "returned"
  /\ fnOut' = [fn |-> "queryTable",
               value |-> FallbackResult(scanTableSettles(scanParams(fnIn.params),
                           [ok |-> TRUE, response |-> response]))]
  /\ UNCHANGED <<conversationHistory, pc, stateless, userMessage, messages,
                 responseBody, idx, finalText, assistantContent, pending,
                 result, httpStatus, log, histAtStart, aliased, turns,
                 endpointVars, fnIn, registryVars, dbCalls, singletonVars,
                 debugVars>>

\* lines 1397-1405 and 1344-1346: the fallback's ScanCommand is rejected
ScanRejects(error) ==
  /\ srvPc = "awaitScan"
  /\ srvPc' = "returned"
  /\ dbCalls' = Append(dbCalls, Rejected(error))
  /\ fnOut' = [fn |-> "queryTable",
               value |-> FallbackResult(scanTableSettles(scanParams(fnIn.params),
                           [ok |-> FALSE, error |-> error]))]
  /\ UNCHANGED <<conversationHistory, pc, stateless, userMessage, messages,
                 responseBody, idx, finalText, assistantContent, pending,
                 result, httpStatus, log, histAtStart, aliased, turns,
                 endpointVars, fnIn, registryVars, singletonVars, debugVars>>

NextQuery ==
  \/ QueryTableCalled
  \/ \E response \in StoreResponses : QueryResolves(response)
  \/ \E error \in StoreErrors : QueryRejects(error)
  \/ \E response \in StoreResponses : ScanResolves(response)
  \/ \E error \in StoreErrors : ScanRejects(error)

SpecQuery == InitQuery /\ [][NextQuery]_vars

----------------------------------------------------------------------------
(* The client module's singleton: initMCPClient creates and connects it,    *)
(* mcpProcessQuery runs a turn on it (part_000 lines 456-472; the compiled  *)
(* build, part_001 lines 319-332, has the same two functions).              *)

NOT_INITIALIZED == "MCP client not initialized. Call initMCPClient first."

InitSingleton ==
  /\ IdleClient
  /\ fnIn = [fn |-> "none"]
  /\ fnOut = [fn |-> "none"]
  /\ clientTools = << >>
  /\ nameMapping = << >>
  /\ connecting = FALSE
  /\ ServerIdle
  /\ SingletonIdle
  /\ DebugIdle

\* the outcome of the initMCPClient call that awaits the connection
SettleInit(outcome) ==
  [i \in DOMAIN initCalls |->
     IF initCalls[i].outcome = "pending"
     THEN [initCalls[i] EXCEPT !.outcome = outcome] ELSE initCalls[i]]

\* lines 459-465: a call of initMCPClient, up to its await or, when the
\* instance exists, to its return
InitMCPClient ==
  /\ Len(initCalls) < MaxInitCalls
  /\ IF mcpClientInstance = "null"
     THEN /\ mcpClientInstance' = "client"
          /\ connecting' = TRUE
          /\ initCalls' = Append(initCalls,
                                 [connects |-> TRUE, outcome |-> "pending"])
     ELSE /\ initCalls' = Append(initCalls,
                                 [connects |-> FALSE, outcome |-> "resolved"])
          /\ UNCHANGED <<mcpClientInstance, connecting>>
  /\ UNCHANGED <<conversationHistory, pc, stateless, userMessage, messages,
                 responseBody, idx, finalText, assistantContent, pending,
                 result, httpStatus, log, histAtStart, aliased, turns,
                 endpointVars, fnVars, clientTools, nameMapping,
                 instanceConnected, serverVars, debugVars>>

\* lines 462-464 and 88-101: the awaited connectToServer resolves
InitConnectResolves ==
  /\ connecting
  /\ connecting' = FALSE
  /\ instanceConnected' = TRUE
  /\ clientTools' = tools
  /\ nameMapping' = BuildMapping(tools, << >>)
  /\ initCalls' = SettleInit("resolved")
  /\ UNCHANGED <<conversationHistory, pc, stateless, userMessage, messages,
                 responseBody, idx, finalText, assistantContent, pending,
                 result, httpStatus, log, histAtStart, aliased, turns,
                 endpointVars, fnVars, mcpClientInstance, serverVars,
                 debugVars>>

\* lines 462 and 108-111: the awaited connectToServer rejects; initMCPClient
\* rejects with it and leaves mcpClientInstance as assigned
InitConnectRejects ==
  /\ connecting
  /\ connecting' = FALSE
  /\ initCalls' = SettleInit("rejected")
  /\ UNCHANGED <<conversationHistory, pc, stateless, userMessage, messages,
                 responseBody, idx, finalText, assistantContent, pending,
                 result, httpStatus, log, histAtStart, aliased, turns,
                 endpointVars, fnVars, clientTools, nameMapping,
                 mcpClientInstance, instanceConnected, serverVars, debugVars>>

\* lines 467-472: mcpProcessQuery(query, stateless)
SingletonProcessQuery(q, s) ==
  /\ turns < MaxSingletonTurns
  /\ IF mcpClientInstance = "null"
     THEN /\ pc \in {"Idle", "Done"}
          /\ result' = Thrown(NOT_INITIALIZED)
          /\ UNCHANGED <<conversationHistory, pc, stateless, userMessage,
                         messages, responseBody, idx, finalText,
                         assistantContent, pending, httpStatus, log,
                         histAtStart, aliased, turns, endpointVars, fnVars,
                         registryVars, auxVars>>
     ELSE McpProcessQuery(q, s)

NextSingleton ==
  \/ InitMCPClient
  \/ InitConnectResolves
  \/ InitConnectRejects
  \/ \E s \in BOOLEAN : SingletonProcessQuery(Query(turns + 1), s)
  \/ TurnStep

SpecSingleton == InitSingleton /\ [][NextSingleton]_vars

----------------------------------------------------------------------------
(* POST /query-debug of src/endpoint.js, lines 56-125: the handler replaces *)
(* console.log and console.error by wrappers that record each line in its   *)
(* logs array, awaits the turn, puts back the functions it found and reads  *)
(* count and items out of logs.  The turn resolves: processQuery returns    *)
(* its failures as text.                                                     *)

\* the lines of a turn that the handler looks for: the "Found n items:" line
\* and the JSON array of the items
TurnLines == <<"count", "items">>

\* the wrappers a line passes through when it is written to c: each records
\* it and hands it to the function it replaced
RECURSIVE Chain(_)
Chain(c) == IF c = NATIVE THEN {} ELSE {c} \cup Chain(dbg[c].original)

\* lines 57-63: the handler answers without touching console
DebugAnswer(r, status) ==
  /\ dbg' = [dbg EXCEPT ![r].pc = "done", ![r].status = status]
  /\ UNCHANGED console

\* lines 56-81: a request arrives; the handler runs up to its await
DebugRequest(r, body) ==
  /\ dbg[r].pc = "idle"
  /\ IF ~mcpReady THEN DebugAnswer(r, 503)
     ELSE IF Falsy(body) THEN DebugAnswer(r, 400)
     ELSE /\ dbg' = [dbg EXCEPT ![r].pc = "awaiting", ![r].original = console]
          /\ console' = r
  /\ UNCHANGED <<conversationHistory, pc, stateless, userMessage, messages,
                 responseBody, idx, finalText, assistantContent, pending,
                 result, httpStatus, log, histAtStart, aliased, turns,
                 endpointVars, fnVars, registryVars, serverVars,
                 singletonVars>>

\* lines 71-79: the turn of request r writes its next line to the console;
\* a line pushed to the logs of a handler that has answered is never read
DebugEmit(r) ==
  /\ dbg[r].pc = "awaiting"
  /\ dbg[r].emitted < Len(TurnLines)
  /\ LET line == [from |-> r, kind |-> TurnLines[dbg[r].emitted + 1]]
         recorded(k) == IF k \in Chain(console) /\ dbg[k].pc = "awaiting"
                        THEN dbg[k].logs \cup {line} ELSE dbg[k].logs
     IN dbg' = [k \in Requests |->
                  [dbg[k] EXCEPT !.logs = recorded(k),
                                 !.emitted = IF k = r THEN @ + 1 ELSE @]]
  /\ UNCHANGED <<conversationHistory, pc, stateless, userMessage, messages,
                 responseBody, idx, finalText, assistantContent, pending,
                 result, httpStatus, log, histAtStart, aliased, turns,
                 endpointVars, fnVars, registryVars, serverVars,
                 singletonVars, console>>

\* lines 81-118: the turn of request r resolves; the handler puts back the
\* functions it saved and answers from its logs
DebugTurnResolves(r) ==
  /\ dbg[r].pc = "awaiting"
  /\ console' = dbg[r].original
  /\ dbg' = [dbg EXCEPT ![r].pc = "done", ![r].status = 200]
  /\ UNCHANGED <<conversationHistory, pc, stateless, userMessage, messages,
                 responseBody, idx, finalText, assistantContent, pending,
                 result, httpStatus, log, histAtStart, aliased, turns,
                 endpointVars, fnVars, registryVars, serverVars,
                 singletonVars>>

\* lines 89-111: the lines the response's count and items are read from
ResponseLines(r) == {l \in dbg[r].logs : l.kind \in {"count", "items"}}

InitDebug ==
  /\ IdleClient
  /\ fnIn = [fn |-> "none"]
  /\ fnOut = [fn |-> "none"]
  /\ clientTools = tools
  /\ nameMapping = sanitizedToOriginalToolName
  /\ connecting = FALSE
  /\ ServerIdle
  /\ SingletonIdle
  /\ DebugIdle

NextDebug ==
  \/ ConnectResolves
  \/ ConnectRejects
  \/ \E r \in Requests, b \in Bodies : DebugRequest(r, b)
  \/ \E r \in Requests : DebugEmit(r)
  \/ \E r \in Requests : DebugTurnResolves(r)

SpecDebug == InitDebug /\ [][NextDebug]_vars

----------------------------------------------------------------------------
(* Properties *)

Range(f) == {f[i] : i \in DOMAIN f}
Events(e) == {i \in DOMAIN log : log[i].ev = e}
TurnOver == pc = "Done"
Pieces == IF result.kind = "return" THEN Range(result.text) ELSE {}

\* top-level roles alternate user/assistant, starting with user
Alternates(ms) ==
  \A i \in DOMAIN ms : ms[i].role = (IF i % 2 = 1 THEN "user" ELSE "assistant")

\* positions <<message, block>> of the tool_result blocks answering id
ResultsFor(ms, id) ==
  {<<k, b>> \in UNION {{k} \X DOMAIN ms[k].content : k \in DOMAIN ms} :
     /\ ms[k].content[b].type = "tool_result"
     /\ ms[k].content[b].tool_use_id = id}

\* every tool_use block is answered by exactly one tool_result, carried in
\* the user message right after the assistant message holding the tool_use
Paired(ms) ==
  \A k \in DOMAIN ms : \A b \in DOMAIN ms[k].content :
     ms[k].content[b].type = "tool_use" =>
        /\ k + 1 \in DOMAIN ms
        /\ ms[k + 1].role = "user"
        /\ Cardinality(ResultsFor(ms, ms[k].content[b].id)) = 1
        /\ \A p \in ResultsFor(ms, ms[k].content[b].id) : p[1] = k + 1

\* C1: every step of a processQuery call made in stateless mode, its entry
\* included and whatever its outcome, leaves conversationHistory unchanged.
C1_StatelessIsolation ==
  [][(\/ pc \in {"Idle", "Done"} /\ pc' = "InvokingModel" /\ stateless'
      \/ pc \notin {"Idle", "Done"} /\ stateless)
     => conversationHistory' = conversationHistory]_vars

\* a stateless call that executed a tool is over, with a non-empty history
C1_Witness ==
  /\ TurnOver /\ stateless
  /\ conversationHistory # << >>
  /\ Events("toolReturned") # {}

\* C2: in every state the persistent conversation alternates user/assistant
\* starting with user, and so does the last message list submitted.
C2_Alternation == Alternates(conversationHistory) /\ Alternates(messages)

\* C3: the message list of every follow-up invocation pairs each tool_use
\* block with exactly one tool_result, in the next message.
C3_Pairing == pc = "InvokingFollowUp" => Paired(messages)

\* C4: every follow-up exchange has the roles user, assistant, user; its
\* first message is the user message the turn submitted first, and the
\* tool_result answers the tool_use of the assistant message before it.
C4_FollowUpShape ==
  pc = "InvokingFollowUp" =>
    /\ Roles(messages) = <<"user", "assistant", "user">>
    /\ messages[1] = log[1].messages[Len(log[1].messages)]
    /\ messages[1].content = <<Text(Query(turns))>>
    /\ Len(messages[2].content) = 1 /\ Len(messages[3].content) = 1
    /\ messages[2].content[1] = responseBody[idx]
    /\ messages[2].content[1].type = "tool_use"
    /\ messages[3].content[1].type = "tool_result"
    /\ messages[3].content[1].tool_use_id = messages[2].content[1].id

\* the follow-up of the second tool_use block of a response is awaited
C4_Witness ==
  /\ pc = "InvokingFollowUp" /\ stateless
  /\ idx = 2
  /\ Events("followUpReturned") # {}

\* C5: a stateful turn that executed one tool and ended without a failed
\* follow-up has appended, after its user message, an assistant message with
\* the tool_use, a user message with the tool_result and an assistant text
\* message.
C5_StatefulPersistence ==
  (/\ TurnOver /\ ~stateless
   /\ Cardinality(Events("toolReturned")) = 1
   /\ Events("followUpRejected") = {} /\ Events("invokeRejected") = {})
  => /\ Len(conversationHistory) = Len(histAtStart) + 4
     /\ SubSeq(Roles(conversationHistory), Len(histAtStart) + 1,
               Len(histAtStart) + 4)
          = <<"user", "assistant", "user", "assistant">>
     /\ \E b \in DOMAIN conversationHistory[Len(histAtStart) + 2].content :
          conversationHistory[Len(histAtStart) + 2].content[b].type = "tool_use"
     /\ conversationHistory[Len(histAtStart) + 3].content[1].type = "tool_result"
     /\ conversationHistory[Len(histAtStart) + 4].content[1].type = "text"

\* C6: when a tool call was rejected, the result is a returned text holding
\* the failure piece (sanitized tool name, reason) and every text block that
\* precedes the failing tool_use block in the response.
C6_ToolFailureContained ==
  TurnOver =>
    \A e \in Events("toolRejected") :
       /\ result.kind = "return"
       /\ \E p \in Pieces :
            /\ p.type = "toolFailed"
            /\ p.name = sanitizeToolName(p.name)
            /\ p.err \in Reasons
       /\ \A j \in 1..(log[e].id[2] - 1) :
            responseBody[j].type = "text"
               => Text(responseBody[j].text) \in Pieces

\* C7: when a tool call was rejected, the blocks after it are still
\* processed: later text blocks are in the result, later tool_use blocks
\* were called.
C7_RejectionDoesNotAbort ==
  TurnOver =>
    \A e \in Events("toolRejected") :
       \A j \in (log[e].id[2] + 1)..Len(responseBody) :
          /\ responseBody[j].type = "text"
               => Text(responseBody[j].text) \in Pieces
          /\ responseBody[j].type = "tool_use"
               => \E c \in Events("callTool") : log[c].id = responseBody[j].id

\* C8: when a follow-up invocation failed, the result still holds the decoded
\* text of every tool that returned and the text blocks processed before.
C8_FollowUpFailureContained ==
  (TurnOver /\ Events("followUpRejected") # {}) =>
    /\ \A e \in Events("toolReturned") :
         log[e].text # "" => Text(log[e].text) \in Pieces
    /\ \A j \in 1..(idx - 1) :
         responseBody[j].type = "text" => Text(responseBody[j].text) \in Pieces

\* C9: once the first model invocation has been rejected, the turn is over
\* with a returned error string, one model invocation was issued and no
\* tool call and no follow-up.
C9_ModelFailure ==
  Events("invokeRejected") # {} =>
    /\ TurnOver
    /\ result.kind = "return"
    /\ Len(result.text) = 1 /\ result.text[1].type = "error"
    /\ result.text[1].msg \in Reasons
    /\ Cardinality(Events("invoke")) = 1
    /\ Events("callTool") = {} /\ Events("followUp") = {}

\* the first invocation of a second, stateful turn was rejected
C9_Witness ==
  /\ TurnOver /\ ~stateless /\ turns = 2
  /\ Events("invokeRejected") # {}

\* C10: processQuery never completes by throwing, and the /query handler
\* never answers 500.
C10_NeverRaises ==
  /\ TurnOver => result.kind = "return"
  /\ httpStatus # 500

\* a /query request was answered 200 although one tool call was rejected and
\* another returned a result that does not decode
C10_Witness ==
  /\ TurnOver /\ httpStatus = 200
  /\ Events("toolRejected") # {}
  /\ \E e \in Events("toolReturned") : log[e].text = ""

NoFailure ==
  /\ Events("invokeRejected") = {}
  /\ Events("toolRejected") = {}
  /\ Events("followUpRejected") = {}

\* all blocks of the message list ms
BlocksOf(ms) == UNION {Range(ms[k].content) : k \in DOMAIN ms}

\* C11: in a turn without failures, the decoded text of every tool that
\* returned is in the result, was the tool_result content of the follow-up
\* issued for it, and the text blocks of that follow-up's response are in
\* the result too.
C11_SuccessfulToolOutput ==
  (TurnOver /\ NoFailure) =>
    \A e \in Events("toolReturned") :
       log[e].text # "" =>
         /\ Text(log[e].text) \in Pieces
         /\ \E f \in Events("followUp") :
              /\ f > e
              /\ ToolResult(log[e].id, log[e].text) \in BlocksOf(log[f].messages)
              /\ f + 1 \in Events("followUpReturned")
              /\ Range(TextsOf(log[f + 1].content)) \subseteq Pieces

ModelCalls == Events("invoke") \cup Events("followUp")

\* C12: a turn without failures issues one model invocation when no tool was
\* executed, and two when a tool was, the follow-up after every tool call.
C12_TurnStateMachine ==
  (TurnOver /\ NoFailure) =>
    /\ Events("toolReturned") = {} => Cardinality(ModelCalls) = 1
    /\ Events("toolReturned") # {} =>
         /\ Cardinality(ModelCalls) = 2
         /\ \A f \in Events("followUp"), c \in Events("callTool") : c < f

IssueEvents == {"invoke", "callTool", "followUp"}

\* C13: a network call is issued only when every earlier one has completed,
\* one is outstanding exactly while the turn awaits it, and the tool calls
\* are issued in the order of their blocks.
C13_Sequential ==
  /\ \A i \in DOMAIN log :
       (i > 1 /\ log[i].ev \in IssueEvents) => log[i - 1].ev \notin IssueEvents
  /\ (log # << >> /\ log[Len(log)].ev \in IssueEvents)
       <=> pc \in {"InvokingModel", "CallingTool", "InvokingFollowUp"}
  /\ \A c, d \in Events("callTool") : c < d => log[c].id[2] < log[d].id[2]
  /\ \A c \in Events("callTool") :
       /\ log[c].id[2] <= Len(responseBody)
       /\ responseBody[log[c].id[2]].id = log[c].id

\* both tool_use blocks of a response had their tool called
C13_Witness == TurnOver /\ Cardinality(Events("callTool")) = 2

\* C14: a stateful call that is not preceded by a reset submits, as its first
\* message list, the whole persistent conversation found at its entry, in
\* order, followed by its own user message.
C14_HistoryCarryOver ==
  [][(/\ pc \in {"Idle", "Done"} /\ pc' = "InvokingModel"
      /\ ~stateless' /\ httpStatus' # -1)
     => /\ messages' = Append(conversationHistory, userMessage')
        /\ log'[1].messages = messages'
        /\ userMessage' = Message("user", <<Text(Query(turns'))>>)]_vars

\* the second of two stateful turns is awaiting its first invocation, which
\* carries the first turn's user message before its own
C14_Witness ==
  /\ pc = "InvokingModel" /\ ~stateless /\ turns = 2 /\ httpStatus = 0
  /\ messages = <<Message("user", <<Text(Query(1))>>),
                  Message("user", <<Text(Query(2))>>)>>

\* the tool_use block a callTool event was issued for
BlockOf(c) == responseBody[log[c].id[2]]

\* a tool_use input whose key condition mentions Age without the partition key
AgeOnly(input) ==
  /\ "keyConditionExpression" \in DOMAIN input
  /\ Includes(input.keyConditionExpression, Str_Age)
  /\ ~Includes(input.keyConditionExpression, Str_Name)
  /\ ~Includes(input.keyConditionExpression, Str_hname)

\* C19: the backend call issued for a tool_use block that names the
\* point-query tool by its advertised (sanitized) name, with a key condition
\* on Age only, is the scan operation with that condition as filterExpression.
C19_RewriteInTurn ==
  \A c \in Events("callTool") :
     (BlockOf(c).name = sanitizeToolName(QUERY_TABLE) /\ AgeOnly(BlockOf(c).input))
       => /\ log[c].name = SCAN_TABLE
          /\ "filterExpression" \in DOMAIN log[c].arguments
          /\ log[c].arguments.filterExpression
               = BlockOf(c).input.keyConditionExpression

\* the fields the rewrite carries over unchanged
CarriedFields ==
  {"tableName", "expressionAttributeNames", "expressionAttributeValues",
   "limit"}

\* C20: for a point-query call whose key condition contains "Age" and neither
\* "Name" nor "#name", optimizeQuery returns the scan operation whose
\* filterExpression is the original key condition and whose tableName,
\* expressionAttributeNames, expressionAttributeValues and limit are those of
\* the input (absent where the input has none).
C20_QueryRewrite ==
  (/\ fnOut.fn = "optimizeQuery"
   /\ fnIn.toolName = QUERY_TABLE
   /\ AgeOnly(fnIn.toolArgs))
  => /\ fnOut.value.name = SCAN_TABLE
     /\ "filterExpression" \in DOMAIN fnOut.value.args
     /\ fnOut.value.args.filterExpression = fnIn.toolArgs.keyConditionExpression
     /\ \A f \in CarriedFields :
          /\ f \in DOMAIN fnOut.value.args <=> f \in DOMAIN fnIn.toolArgs
          /\ f \in DOMAIN fnIn.toolArgs =>
               fnOut.value.args[f] = fnIn.toolArgs[f]

\* optimizeQuery returned for a point query on Age only that carries all the
\* fields, a filterExpression and an indexName of its own
C20_Witness ==
  /\ fnOut.fn = "optimizeQuery"
  /\ fnIn.toolName = QUERY_TABLE
  /\ AgeOnly(fnIn.toolArgs)
  /\ DOMAIN fnIn.toolArgs = OtherFields \cup {"keyConditionExpression"}
  /\ fnIn.toolArgs.keyConditionExpression = Str_AgeGt

\* C15: while and after the /query handler runs a request, the first model
\* invocation made for it carried exactly the request's own user message, and
\* no invocation made for it carried the query of another request.
C15_RequestIndependence ==
  httpStatus \in {-1, 200, 500} =>
    /\ log[1].ev = "invoke"
    /\ log[1].messages = <<userMessage>>
    /\ \A i \in ModelCalls, t \in DOMAIN Queries :
         t # turns => Text(Query(t)) \notin BlocksOf(log[i].messages)

\* request bodies without a query field or with a query that is no string
MalformedBodies == {b \in Bodies : b.query # "string"}

\* C16: once the server is ready, a POST /query whose body has no query
\* field, or a query that is not a string, is answered 400 and starts no
\* turn: no model invocation is issued for it.
C16_MalformedRejected ==
  [][\A b \in MalformedBodies :
       (mcpReady /\ EndpointQuery(b))
         => (httpStatus' = 400 /\ turns' = turns /\ log' = log /\ pc' = pc)]_vars

\* C17: a POST /query arriving before initialization has completed is
\* answered 503 and starts no turn, and a turn starts only when
\* initialization has completed successfully.
C17_ReadinessGating ==
  [][/\ \A b \in Bodies :
          (startup # "connected" /\ EndpointQuery(b))
            => (httpStatus' = 503 /\ turns' = turns /\ log' = log /\ pc' = pc)
     /\ turns' # turns => (startup = "connected" /\ mcpReady)]_vars

\* a request was answered 503 while initialization was still under way, and
\* no turn has run
C17_Witness ==
  httpStatus = 503 /\ startup = "connecting" /\ turns = 0 /\ log = << >>

\* C18: once the connection to the backend has failed at startup, the
\* process answers no POST /query request.
C18_ConnectionFailureFatal ==
  [][startup = "failed" => \A b \in Bodies : ~EndpointQuery(b)]_vars

\* C21: optimizeQuery returns the tool name and the arguments unchanged for
\* every call that is not the point-query operation, and for every
\* point-query call whose key condition lacks "Age" or contains "Name" or
\* "#name", a missing key condition included.
C21_OptimizerScope ==
  (/\ fnOut.fn = "optimizeQuery"
   /\ (fnIn.toolName # QUERY_TABLE \/ ~AgeOnly(fnIn.toolArgs)))
  => /\ fnOut.value.name = fnIn.toolName
     /\ fnOut.value.args = fnIn.toolArgs

\* optimizeQuery returned for a point query whose key condition names both
\* the partition key and Age
C21_Witness ==
  /\ fnOut.fn = "optimizeQuery"
  /\ fnIn.toolName = QUERY_TABLE
  /\ "keyConditionExpression" \in DOMAIN fnIn.toolArgs
  /\ Includes(fnIn.toolArgs.keyConditionExpression, Str_Age)
  /\ Includes(fnIn.toolArgs.keyConditionExpression, Str_Name)
  /\ fnOut.value = [name |-> QUERY_TABLE, args |-> fnIn.toolArgs]

\* C22: sanitizing a sanitized name gives the sanitized name again.
C22_SanitizeIdempotent ==
  fnOut.fn = "sanitizeTwice" => fnOut.again = fnOut.value

\* a name with two characters outside the class has been sanitized twice
C22_Witness ==
  /\ fnOut.fn = "sanitizeTwice"
  /\ Cardinality({i \in DOMAIN fnIn.name : fnIn.name[i] \notin SafeChars}) >= 2
  /\ fnOut.value # fnIn.name

\* C24: sanitizeToolName(name) has the length of name, equals name wherever
\* name holds a character of [a-zA-Z0-9_-] and holds "_" everywhere else, so
\* the sanitized name consists of characters of the class only.
C24_SanitizeDefinition ==
  fnOut.fn = "sanitizeToolName" =>
    /\ Len(fnOut.value) = Len(fnIn.name)
    /\ \A i \in DOMAIN fnIn.name :
         /\ fnIn.name[i] \in SafeChars => fnOut.value[i] = fnIn.name[i]
         /\ fnIn.name[i] \notin SafeChars => fnOut.value[i] = "_"
    /\ \A i \in DOMAIN fnOut.value : fnOut.value[i] \in SafeChars

\* a name mixing a hyphen, an underscore and a character outside the class
\* has been sanitized
C24_Witness ==
  /\ fnOut.fn = "sanitizeToolName"
  /\ {"-", "_", ":"} \subseteq Range(fnIn.name)
  /\ fnOut.value # fnIn.name

\* a name made of characters of [a-zA-Z0-9_-] only
Clean(n) == \A i \in DOMAIN n : n[i] \in SafeChars

\* the positions of the catalog ts whose name sanitizes to k
Sanitizing(ts, k) == {i \in DOMAIN ts : sanitizeToolName(ts[i]) = k}

\* the last name of the catalog ts that sanitizes to k is n, or none does
LastIs(ts, k, n) ==
  \A i \in Sanitizing(ts, k) :
     (\A j \in Sanitizing(ts, k) : j <= i) => ts[i] = n

\* C23, as stated: a clean name n sanitizes to itself, and with any
\* registered catalog the resolution of sanitize(n) is n.
C23_RoundTrip ==
  [][\A n \in RegistryNames :
       (Clean(n) /\ ResolveName(n))
         => (fnOut'.sanitized = n /\ fnOut'.value = n)]_vars

\* C23, amended: a clean name n sanitizes to itself, and the resolution of
\* sanitize(n) is n with any registered catalog whose last name sanitizing
\* to n, if it has one, is n itself.
C23_RoundTripAmended ==
  [][\A n \in RegistryNames :
       (Clean(n) /\ ResolveName(n))
         => /\ fnOut'.sanitized = n
            /\ LastIs(clientTools, n, n) => fnOut'.value = n]_vars

\* the clean name a_b was resolved to itself although the catalog lists,
\* before it, a name that sanitizes to it
C23_Witness ==
  /\ fnOut.fn = "resolve"
  /\ fnIn.name = Tool_a_b
  /\ fnOut.value = Tool_a_b
  /\ clientTools = <<Tool_a_colon, Tool_a_b>>
  /\ nameMapping = BuildMapping(clientTools, << >>)

\* C25: when two distinct names of the fetched catalog sanitize to the same
\* safe name, the safe name resolves to the one that comes last in the
\* catalog, and no name resolves to an earlier one.
C25_CollisionPolicy ==
  [][\A n \in RegistryNames :
       ResolveName(n) =>
         \A i, j \in DOMAIN clientTools :
            (/\ i < j
             /\ sanitizeToolName(clientTools[i]) = sanitizeToolName(clientTools[j])
             /\ \A k \in Sanitizing(clientTools, sanitizeToolName(clientTools[j])) :
                  k <= j)
            => /\ fnOut'.value # clientTools[i]
               /\ fnOut'.sanitized = sanitizeToolName(clientTools[j])
                    => fnOut'.value = clientTools[j]]_vars

\* with a_b listed before a:b, the name a_b was resolved to a:b
C25_Witness ==
  /\ fnOut.fn = "resolve"
  /\ fnIn.name = Tool_a_b
  /\ fnOut.value = Tool_a_colon
  /\ clientTools = <<Tool_a_b, Tool_a_colon>>
  /\ nameMapping = BuildMapping(clientTools, << >>)

\* C26: in every state, whether or not a fetch is under way, the keys of the
\* mapping are exactly the sanitized names of the catalog last fetched, and
\* every entry holds a name of that catalog which sanitizes to its key.
C26_RegistryConsistent ==
  /\ DOMAIN nameMapping = {sanitizeToolName(clientTools[i]) : i \in DOMAIN clientTools}
  /\ \A k \in DOMAIN nameMapping :
       /\ nameMapping[k] \in Range(clientTools)
       /\ sanitizeToolName(nameMapping[k]) = k

\* a_b once resolved to a:b, and a later fetch has left a catalog and a
\* mapping that hold c alone
C26_Witness ==
  /\ fnOut.fn = "resolve"
  /\ fnIn.name = Tool_a_b
  /\ fnOut.value = Tool_a_colon
  /\ ~connecting
  /\ clientTools = <<Tool_c>>
  /\ DOMAIN nameMapping = {Tool_c}

\* C27: the name used for the backend call is the mapped original name when
\* the sanitized name of the tool_use block is in the mapping, and the
\* sanitized name itself when it is not.
C27_ResolveFallback ==
  [][\A n \in RegistryNames :
       ResolveName(n) =>
         IF sanitizeToolName(n) \in DOMAIN nameMapping
         THEN fnOut'.value = nameMapping[sanitizeToolName(n)]
         ELSE fnOut'.value = sanitizeToolName(n)]_vars

\* the tool result carries a text the decoder hands to JSON.parse
HasText(res) == res.content \in {"string", "blocks"}

\* C28: whenever the content string of the tool result, or the string text
\* of its first block, parses as JSON, whatever the parsed value, the display
\* text is the pretty-printed re-serialization of the parsed value.
C28_DecoderSuccess ==
  (/\ fnOut.fn = "decode"
   /\ HasText(fnIn.result)
   /\ JSON_parse(fnIn.result.text).ok)
  => fnOut.resultText = JSON_stringify(JSON_parse(fnIn.result.text).value)

\* C29: when the text of the tool result is no valid JSON, the decode raises
\* nothing and the display text is the raw text itself.
C29_RawPassthrough ==
  (/\ fnOut.fn = "decode"
   /\ HasText(fnIn.result)
   /\ ~JSON_parse(fnIn.result.text).ok)
  => /\ ~fnOut.raised
     /\ fnOut.resultText = fnIn.result.text

\* C30: the decode of a tool result of any shape raises nothing, and when the
\* content is neither a string nor a block list whose first block has a
\* string text, the display text is the empty string.
C30_DecoderTotal ==
  fnOut.fn = "decode" =>
    /\ ~fnOut.raised
    /\ ~HasText(fnIn.result) => fnOut.resultText = ""

\* a result whose first block has no string text has been decoded, to the
\* empty display text and without an error
C30_Witness ==
  /\ fnOut.fn = "decode"
  /\ fnIn.result.content = "blocksNoText"
  /\ fnOut.resultText = ""
  /\ ~fnOut.raised

\* C40: the scan call the rewrite produces has no argument other than
\* tableName, filterExpression, expressionAttributeNames,
\* expressionAttributeValues and limit; its filterExpression is the key
\* condition, and a filterExpression, indexName or scanIndexForward of the
\* original call is not carried into it.
C40_RewriteFrame ==
  (/\ fnOut.fn = "optimizeQuery"
   /\ fnIn.toolName = QUERY_TABLE
   /\ AgeOnly(fnIn.toolArgs))
  => /\ DOMAIN fnOut.value.args \subseteq CarriedFields \cup {"filterExpression"}
     /\ fnOut.value.args.filterExpression = fnIn.toolArgs.keyConditionExpression
     /\ "filterExpression" \in DOMAIN fnIn.toolArgs =>
          fnOut.value.args.filterExpression # fnIn.toolArgs.filterExpression

\* a point query on Age only that carries a filterExpression, an indexName
\* and a scanIndexForward of its own was rewritten
C40_Witness ==
  /\ fnOut.fn = "optimizeQuery"
  /\ fnOut.value.name = SCAN_TABLE
  /\ {"filterExpression", "indexName", "scanIndexForward"}
       \subseteq DOMAIN fnIn.toolArgs
  /\ DOMAIN fnOut.value.args \cap {"indexName", "scanIndexForward"} = {}

\* the step empties the persistent conversation on demand: the clear command
\* or resetConversationHistory, which the /query handler of the source calls
\* before it starts the turn
Cleared ==
  \/ conversationHistory' = << >>
  \/ turns' # turns /\ histAtStart' = << >>

\* C33: in a step without a clear, every message already in the persistent
\* conversation keeps its role and its content blocks.
C33_MessageImmutable ==
  [][~Cleared =>
       \A i \in DOMAIN conversationHistory :
          i \in DOMAIN conversationHistory'
            => conversationHistory'[i] = conversationHistory[i]]_vars

\* the message kept at position i of the conversation has the role and, in
\* order, the blocks it had
Kept(i) ==
  /\ i \in DOMAIN conversationHistory'
  /\ conversationHistory'[i].role = conversationHistory[i].role
  /\ Len(conversationHistory'[i].content) >= Len(conversationHistory[i].content)
  /\ SubSeq(conversationHistory'[i].content, 1,
            Len(conversationHistory[i].content)) = conversationHistory[i].content

\* C34: the persistent conversation loses a message only in a step that
\* clears it, a clear leaves it empty, and a stateful turn that finds it empty
\* submits exactly its own user message.
C34_NoImplicitPruning ==
  [][/\ ~Cleared => \A i \in DOMAIN conversationHistory : Kept(i)
     /\ (pc' = pc /\ turns' = turns /\ ChatLoop("clear"))
          => conversationHistory' = << >>
     /\ (turns' # turns /\ ~stateless' /\ conversationHistory = << >>)
          => /\ messages' = <<userMessage'>>
             /\ conversationHistory' = <<userMessage'>>]_vars

\* a stateful turn from the terminal has ended and the conversation, which
\* held its user message, has been cleared
C34_Witness ==
  /\ pc = "Done" /\ ~stateless /\ httpStatus = 0 /\ turns = 1
  /\ histAtStart = << >>
  /\ conversationHistory = << >>

\* C38: a stateful turn whose first model invocation is rejected leaves the
\* persistent conversation as the turn found it.
C38_UnchangedOnModelFailure ==
  [][(pc = "InvokingModel" /\ pc' = "Done" /\ ~stateless)
       => conversationHistory' = histAtStart]_vars

\* the tool_use blocks of the first model response of the turn
ToolUseBlocks == {i \in DOMAIN responseBody : responseBody[i].type = "tool_use"}

\* C39: every turn under way eventually reaches Done; a turn issues at most
\* as many tool calls as its first response has tool_use blocks and at most
\* one model invocation more than that, and every tool call is for a block
\* of the first response, never for one of a follow-up response.
C39_TurnTerminates ==
  /\ [](/\ Cardinality(Events("callTool")) <= Cardinality(ToolUseBlocks)
        /\ Cardinality(ModelCalls) <= 1 + Cardinality(ToolUseBlocks)
        /\ \A c \in Events("callTool") :
             /\ log[c].id[1] = turns
             /\ log[c].id[2] \in ToolUseBlocks)
  /\ (pc \in {"InvokingModel", "Loop", "CallingTool", "InvokingFollowUp"})
       ~> (pc = "Done")

\* a turn has ended after two tool calls and three model invocations, and a
\* follow-up response held a tool_use block
C39_Witness ==
  /\ TurnOver
  /\ Cardinality(Events("callTool")) = 2
  /\ Cardinality(ModelCalls) = 3
  /\ \E f \in Events("followUpReturned") :
       \E i \in DOMAIN log[f].content : log[f].content[i].type = "tool_use"

\* the validation failures the fallback is for
ValidationFallbackCase(e) ==
  /\ e.name = "ValidationException"
  /\ e.stringMessage
  /\ \E fragment \in {MISSED_KEY, INVALID_KCE, SYNTAX_ERR} :
        \E i \in DOMAIN e.message : e.message[i] = fragment

\* the calls of one kind queryTable has made
CallsOf(op) == {i \in DOMAIN dbCalls : dbCalls[i].op = op}

\* the commands sent to the data store
StoreCalls == CallsOf("QueryCommand") \cup CallsOf("ScanCommand")

\* the point query was sent and rejected with a qualifying failure
QueryRejectedQualifying ==
  /\ Len(dbCalls) >= 2
  /\ dbCalls[1].op = "QueryCommand"
  /\ dbCalls[2].op = "rejected"
  /\ ValidationFallbackCase(dbCalls[2].error)

\* C31: once the point query has been rejected with a qualifying validation
\* failure, exactly one scan has been attempted, its params carry the key
\* condition as filter expression and the call's table name, attribute-name
\* map, attribute-value map and limit, one ScanCommand went out for it, and
\* the message returned starts with the conversion note.
C31_ValidationFallback ==
  QueryRejectedQualifying =>
    /\ CallsOf("scanTable") = {3}
    /\ \A f \in {"tableName", "expressionAttributeNames",
                 "expressionAttributeValues", "limit"} :
          Field(dbCalls[3].params, f) = Field(fnIn.params, f)
    /\ Field(dbCalls[3].params, "filterExpression")
         = Field(fnIn.params, "keyConditionExpression")
    /\ CallsOf("ScanCommand") = {4}
    /\ dbCalls[4].input["TableName"] = dbCalls[1].input["TableName"]
    /\ dbCalls[4].input["FilterExpression"]
         = dbCalls[1].input["KeyConditionExpression"]
    /\ \A f \in {"ExpressionAttributeValues", "Limit"} :
          Field(dbCalls[4].input, f) = Field(dbCalls[1].input, f)
    /\ srvPc = "returned" => fnOut.value.message[1] = CONVERTED_PIECE

C31_Witness ==
  /\ QueryRejectedQualifying
  /\ srvPc = "returned"
  /\ fnOut.value.success
  /\ fnOut.value.items # << >>
  /\ {"expressionAttributeNames", "expressionAttributeValues", "limit",
      "filterExpression"} \subseteq DOMAIN fnIn.params
  /\ Key_b \in DOMAIN fnIn.params["expressionAttributeNames"]

\* C32: when the point query was rejected with a qualifying validation
\* failure and the fallback scan was rejected too, at most two commands went
\* to the data store and the result is success = false, items = [] with the
\* message that both the query and the scan fallback failed.
C32_DoubleFailure ==
  (/\ QueryRejectedQualifying
   /\ srvPc = "returned"
   /\ dbCalls[Len(dbCalls)].op = "rejected"
   /\ Len(dbCalls) > 2)
  => /\ Cardinality(StoreCalls) <= 2
     /\ fnOut.value.success = FALSE
     /\ fnOut.value.items = << >>
     /\ fnOut.value.message[1] = BOTH_FAILED_PIECE

\* the point query failed outside the validation case: its attribute-name
\* map was rejected, or the data store rejected it otherwise
FailedOutsideValidationCase ==
  /\ srvPc = "returned"
  /\ \/ /\ "expressionAttributeNames" \in DOMAIN fnIn.params
        /\ Key_hash \in DOMAIN fnIn.params["expressionAttributeNames"]
     \/ /\ Len(dbCalls) >= 2
        /\ dbCalls[2].op = "rejected"
        /\ ~ValidationFallbackCase(dbCalls[2].error)

\* C35: a point query that failed outside the validation case made no scan
\* and at most one data-store call, and returned success = false with
\* items = [].
C35_NoFallbackOutside ==
  FailedOutsideValidationCase =>
    /\ CallsOf("scanTable") = {}
    /\ CallsOf("ScanCommand") = {}
    /\ Cardinality(StoreCalls) <= 1
    /\ fnOut.value.success = FALSE
    /\ fnOut.value.items = << >>

C35_Witness ==
  /\ FailedOutsideValidationCase
  /\ Len(dbCalls) = 2
  /\ dbCalls[2].error.name = "ValidationException"
  /\ dbCalls[2].error.stringMessage

\* an initMCPClient call has been rejected and none has connected since
InitFailed ==
  /\ ~instanceConnected
  /\ ~connecting
  /\ \E i \in DOMAIN initCalls : initCalls[i].outcome = "rejected"

\* C36: while no connectToServer call has completed successfully,
\* mcpProcessQuery raises 'MCP client not initialized' and starts no turn,
\* and an initMCPClient call made after a failed attempt connects again.
C36_SingletonInit ==
  [][/\ \A s \in BOOLEAN :
          (~instanceConnected /\ SingletonProcessQuery(Query(turns + 1), s))
            => (result' = Thrown(NOT_INITIALIZED) /\ turns' = turns)
     /\ (InitFailed /\ InitMCPClient) => connecting']_vars

\* C37: once every /query-debug request has completed, console.log and
\* console.error are the functions the process started with, and every
\* response was read from lines written by its own request's turn.
C37_ConsoleRestored ==
  (\A r \in Requests : dbg[r].pc # "awaiting") =>
     /\ console = NATIVE
     /\ \A r \in Requests : \A l \in ResponseLines(r) : l.from = r

====
